---- MODULE Spec2Model ----
(***************************************************************************)
(* Magic-Wheels-Dashboard: the OAuth token lifecycle.                      *)
(*                                                                         *)
(*   app/token_storage.py  the single-row SQLite token store               *)
(*   app/oauth_client.py   GoHighLevelOAuthClient on top of that store     *)
(*                                                                         *)
(*   app/data_refresh.py   DataRefreshManager                              *)
(*   app/api_client.py     GoHighLevelAPI: collection and aggregation      *)
(*   app/dashboard_design.py  DashboardDesign: the summary of the dashboard*)
(*                                                                         *)
(* The specifications of the module, each over its own part of the state:  *)
(*   SpecStore  any sequence of save_token / load_token / delete_token     *)
(*   Spec       one GoHighLevelOAuthClient at a time working on the store  *)
(*   SpecRW     a save_token and a load_token on two connections           *)
(*   SpecDisk   the client on a token database that may fail               *)
(*   SpecClient every method of the client on such a database              *)
(*   SpecRefresh  a DataRefreshManager, its scheduler threads and a caller *)
(*   SpecRace   threads calling get() and post() of one client             *)
(*   SpecAgg    process_data_for_dashboard on raw data                     *)
(*   SpecLeads  get_lead_response_metrics on the contacts of a location    *)
(*   SpecCollect  collect_pipeline_data against an API that may refuse     *)
(*   SpecReport the functions from raw data to the dashboard's summaries   *)
(***************************************************************************)
EXTENDS Integers, Sequences, FiniteSets, TLC

VARIABLES
    now,      \* datetime.now().timestamp(), whole seconds
    ticks,    \* number of clock steps taken (bounds the clock)
    tokens,   \* the rows of table `tokens` in oauth_tokens.db
    token,    \* GoHighLevelOAuthClient.token (the in-memory token)
    session,  \* GoHighLevelOAuthClient.session (the OAuth2Session)
    issued,   \* number of tokens the token endpoint has granted so far
    call,     \* what the call that has just returned did
    conns,    \* the sqlite3 connections of a running save_token / load_token
    racers,   \* the threads that are inside get() of one client
    mgr,      \* the DataRefreshManager and its threads
    agg       \* GoHighLevelAPI: the data a call was given and what it built

vars == <<now, ticks, tokens, token, session, issued, call,
          conns, racers, mgr, agg>>

\* the state of the token client and its store
clientvars == <<now, ticks, tokens, token, session, issued, call>>

----------------------------------------------------------------------------
(* Bounds *)

Epoch     == 1000     \* the clock's value when the model starts
MaxTicks  == 2        \* clock steps per behaviour
MaxIssued == 2        \* grants of the token endpoint per behaviour

ClockSteps == {1, 300}          \* seconds the clock may advance in one step
ExpiresIn  == {300, 301}        \* expires_in values the endpoint may grant

----------------------------------------------------------------------------
(* Python values *)

\* None where a token (dict) is expected
None == [none |-> TRUE]

\* the return value None / a returned token / a decoded JSON body
RetNone       == [kind |-> "None"]
RetToken(tok) == [kind |-> "token", value |-> tok]
RetJson       == [kind |-> "json"]

\* a key that a dict does not have, where a string is expected
Missing == "<missing>"

\* dict.get(key, default)
dict_get(d, key, default) == IF key \in DOMAIN d THEN d[key] ELSE default

\* `not x` for a token: None and the empty dict are falsy
falsy(tok) == tok = None \/ DOMAIN tok = {}

Fields == {"token_type", "access_token", "refresh_token", "expires_at", "scope"}

----------------------------------------------------------------------------
(* json.dumps / json.loads of a scope list; the text is a sequence of       *)
(* lexical tokens: "[", the items separated by ",", "]"                     *)

RECURSIVE json_items(_)
json_items(list) ==
    IF list = <<>> THEN <<>>
    ELSE IF Len(list) = 1 THEN <<list[1]>>
    ELSE <<list[1], ",">> \o json_items(Tail(list))

json_dumps(list) == <<"[">> \o json_items(list) \o <<"]">>

json_loads(text) ==
    SelectSeq(SubSeq(text, 2, Len(text) - 1), LAMBDA x : x # ",")

----------------------------------------------------------------------------
(* app/token_storage.py *)

\* the parameter tuple of the UPDATE and of the INSERT statement
token_columns(tok) ==
    [token_type    |-> dict_get(tok, "token_type", "Bearer"),
     access_token  |-> dict_get(tok, "access_token", ""),
     refresh_token |-> dict_get(tok, "refresh_token", ""),
     expires_at    |-> dict_get(tok, "expires_at", 0),
     scope         |-> json_dumps(dict_get(tok, "scope", <<>>))]

\* a bug: the UPDATE leaves a column alone when the token lacks the key
save_token_merge(rows, tok, t) ==
    LET token_exists == \E r \in rows : r.id = 1
        v == token_columns(tok)
        keep(r, f) == IF f \in DOMAIN tok THEN v[f] ELSE r[f]
    IN  IF token_exists
        THEN {IF r.id = 1
              THEN [r EXCEPT !.token_type    = keep(r, "token_type"),
                             !.access_token  = keep(r, "access_token"),
                             !.refresh_token = keep(r, "refresh_token"),
                             !.expires_at    = keep(r, "expires_at"),
                             !.scope         = keep(r, "scope"),
                             !.updated_at    = t]
              ELSE r : r \in rows}
        ELSE rows \cup {[id |-> 1,
                         token_type |-> v.token_type,
                         access_token |-> v.access_token,
                         refresh_token |-> v.refresh_token,
                         expires_at |-> v.expires_at,
                         scope |-> v.scope,
                         created_at |-> t, updated_at |-> t]}

\* a bug: no existence check, every save inserts a row under the next id
save_token_insert(rows, tok, t) ==
    LET v == token_columns(tok)
    IN  rows \cup {[id |-> Cardinality(rows) + 1,
                    token_type |-> v.token_type,
                    access_token |-> v.access_token,
                    refresh_token |-> v.refresh_token,
                    expires_at |-> v.expires_at,
                    scope |-> v.scope,
                    created_at |-> t, updated_at |-> t]}

\* save_token(token): the table after the call, run at time t
save_token(rows, tok, t) ==
    LET token_exists == \E r \in rows : r.id = 1
        v == token_columns(tok)
    IN  IF token_exists
        THEN {IF r.id = 1
              THEN [r EXCEPT !.token_type    = v.token_type,
                             !.access_token  = v.access_token,
                             !.refresh_token = v.refresh_token,
                             !.expires_at    = v.expires_at,
                             !.scope         = v.scope,
                             !.updated_at    = t]
              ELSE r : r \in rows}
        ELSE rows \cup {[id |-> 1,
                         token_type |-> v.token_type,
                         access_token |-> v.access_token,
                         refresh_token |-> v.refresh_token,
                         expires_at |-> v.expires_at,
                         scope |-> v.scope,
                         created_at |-> t, updated_at |-> t]}

\* load_token(): the dict built from the row with id 1, or None
load_token(rows) ==
    LET result == {r \in rows : r.id = 1}
    IN  IF result = {} THEN None
        ELSE LET r == CHOOSE r \in result : TRUE
             IN  [token_type    |-> r.token_type,
                  access_token  |-> r.access_token,
                  refresh_token |-> r.refresh_token,
                  expires_at    |-> r.expires_at,
                  scope         |-> IF r.scope # <<>> THEN json_loads(r.scope)
                                    ELSE <<>>]

\* delete_token(): the table after the call
delete_token(rows) == {r \in rows : r.id # 1}

----------------------------------------------------------------------------
(* The token endpoint and requests_oauthlib.OAuth2Session, as far as the    *)
(* client relies on them                                                    *)

\* names of the access and refresh tokens the endpoint grants, in order
AccessTokens  == <<"at1", "at2", "at3", "at4", "at5", "at6">>
RefreshTokens == <<"rt1", "rt2", "rt3", "rt4", "rt5", "rt6">>

\* members of a token response that the endpoint may leave out
Optional == {"expires_in", "refresh_token"}

\* the answers of the token endpoint: a rejection, or a grant
TokenAnswers ==
    {[status |-> s, fields |-> {}, expires_in |-> 0] : s \in {400, 500}}
    \cup {a \in [status : {200}, fields : (SUBSET Optional) \ {{}},
                 expires_in : ExpiresIn] :
            "expires_in" \notin a.fields => a.expires_in = 300}

\* the status codes of the CRM API's answers
ApiStatuses == {200, 500}

is_2xx(status) == status \in 200..299

\* the token dict the session builds from the n-th grant, received at time t
parse_token(answer, n, t) ==
    LET keys == {"token_type", "access_token", "scope"}
                \cup (answer.fields \cap {"refresh_token"})
        base == [k \in keys |->
                    CASE k = "token_type"    -> "Bearer"
                      [] k = "access_token"  -> AccessTokens[n]
                      [] k = "refresh_token" -> RefreshTokens[n]
                      [] k = "scope"         -> <<"a", "b">>]
    IN  IF "expires_in" \in answer.fields
        THEN base @@ [expires_in |-> answer.expires_in,
                      expires_at |-> t + answer.expires_in]
        ELSE base

\* _create_session(): a session around self.token, or one without a token
create_session(tok) ==
    IF ~falsy(tok) THEN [token |-> tok, auto_refresh |-> TRUE]
    ELSE [token |-> None, auto_refresh |-> FALSE]

\* session.fetch_token(...): one POST to the token endpoint; the session
\* raises unless the answer is a grant
session_fetch_token(sess, answer, n, t) ==
    IF ~is_2xx(answer.status)
    THEN [raised |-> "OAuth2Error", status |-> answer.status,
          token |-> None, session |-> sess]
    ELSE [raised |-> "none", status |-> answer.status,
          token |-> parse_token(answer, n, t),
          session |-> [sess EXCEPT !.token = parse_token(answer, n, t)]]

\* session.refresh_token(...): one POST to the token endpoint carrying the
\* session token's refresh_token; the endpoint rejects an absent one; a grant
\* without a refresh_token keeps the one that was sent
session_refresh_token(sess, answer, n, t) ==
    LET sent  == dict_get(sess.token, "refresh_token", Missing)
        reply == IF sent \in {"", Missing}
                 THEN [status |-> 400, fields |-> {}, expires_in |-> 0]
                 ELSE answer
        new   == parse_token(reply, n, t)
        tok   == IF "refresh_token" \in DOMAIN new THEN new
                 ELSE new @@ [refresh_token |-> sent]
    IN  IF ~is_2xx(reply.status)
        THEN [raised |-> "OAuth2Error", status |-> reply.status,
              token |-> None, session |-> sess]
        ELSE [raised |-> "none", status |-> reply.status,
              token |-> tok, session |-> [sess EXCEPT !.token = tok]]

----------------------------------------------------------------------------
(* app/oauth_client.py: GoHighLevelOAuthClient.  A method is an operator    *)
(* from the client c = [token, session, tokens, issued], the time and the   *)
(* answers of the outside world to the client after the call and what the   *)
(* call did.                                                                *)

buffer_time == 300

\* what a call did, before anything has happened
Did(c) ==
    [c |-> c, ret |-> RetNone, exc |-> "none", refresh |-> "not_called",
     tokenReqs |-> 0, tokenStatus |-> 0, granted |-> "",
     apiReqs |-> 0, apiToken |-> ""]

\* a bug: the comparison is the wrong way round
is_token_valid_inverted(tok, t) ==
    IF falsy(tok) THEN FALSE
    ELSE IF dict_get(tok, "expires_at", 0) = 0 THEN FALSE
    ELSE t > dict_get(tok, "expires_at", 0) - buffer_time

\* a bug: the buffer is not subtracted
is_token_valid_nobuffer(tok, t) ==
    IF falsy(tok) THEN FALSE
    ELSE IF dict_get(tok, "expires_at", 0) = 0 THEN FALSE
    ELSE t < dict_get(tok, "expires_at", 0)

\* a bug: <= for <
is_token_valid_le(tok, t) ==
    IF falsy(tok) THEN FALSE
    ELSE IF dict_get(tok, "expires_at", 0) = 0 THEN FALSE
    ELSE t <= dict_get(tok, "expires_at", 0) - buffer_time

\* is_token_valid(); expires_at None and expires_at 0 are both `not expires_at`
is_token_valid(tok, t) ==
    IF falsy(tok) THEN FALSE
    ELSE IF dict_get(tok, "expires_at", 0) = 0 THEN FALSE
    ELSE t < dict_get(tok, "expires_at", 0) - buffer_time

\* a bug: the handler lets the exception go
fetch_except_reraise(c, lib) ==
    [Did(c) EXCEPT !.exc = lib.raised, !.tokenReqs = 1,
                   !.tokenStatus = lib.status]

\* a bug: the handler drops the stored token
fetch_except_drop(c, lib) ==
    [Did([c EXCEPT !.token = None, !.tokens = delete_token(c.tokens)])
        EXCEPT !.ret = RetNone, !.tokenReqs = 1,
               !.tokenStatus = lib.status]

\* fetch_token(): except Exception -> log, return None
fetch_except(c, lib) ==
    [Did(c) EXCEPT !.ret = RetNone, !.tokenReqs = 1,
                   !.tokenStatus = lib.status]

\* a bug: the new token is saved but self.token is not set
fetch_try_stale(c, lib, t) ==
    [Did([c EXCEPT !.tokens = save_token(c.tokens, lib.token, t),
                   !.issued = c.issued + 1])
        EXCEPT !.ret = RetToken(lib.token), !.tokenReqs = 1,
               !.tokenStatus = lib.status,
               !.granted = lib.token.access_token]

\* fetch_token(): the try block once session.fetch_token has returned
fetch_try(c, lib, t) ==
    [Did([token   |-> lib.token,
          session |-> create_session(lib.token),
          tokens  |-> save_token(c.tokens, lib.token, t),
          issued  |-> c.issued + 1])
        EXCEPT !.ret = RetToken(lib.token), !.tokenReqs = 1,
               !.tokenStatus = lib.status,
               !.granted = lib.token.access_token]

\* fetch_token(authorization_response)
fetch_token(c, t, answer) ==
    LET lib == session_fetch_token(c.session, answer, c.issued + 1, t)
    IN  IF lib.raised # "none" THEN fetch_except(c, lib)
        ELSE fetch_try(c, lib, t)

\* a bug: the handler lets the exception go
refresh_except_reraise(c, lib) ==
    [Did(c) EXCEPT !.exc = lib.raised, !.refresh = "failed",
                   !.tokenReqs = 1, !.tokenStatus = lib.status]

\* a bug: the handler drops the token that could not be refreshed
refresh_except_drop(c, lib) ==
    [Did([c EXCEPT !.token = None, !.tokens = delete_token(c.tokens)])
        EXCEPT !.ret = RetNone, !.refresh = "failed",
               !.tokenReqs = 1, !.tokenStatus = lib.status]

\* refresh_token(): except Exception -> log, return None
refresh_except(c, lib) ==
    [Did(c) EXCEPT !.ret = RetNone, !.refresh = "failed",
                   !.tokenReqs = 1, !.tokenStatus = lib.status]

\* a bug: the refreshed token is assigned and not saved
refresh_try_unsaved(c, lib, t) ==
    [Did([token   |-> lib.token,
          session |-> lib.session,
          tokens  |-> c.tokens,
          issued  |-> c.issued + 1])
        EXCEPT !.ret = RetToken(lib.token), !.refresh = "ok",
               !.tokenReqs = 1, !.tokenStatus = lib.status,
               !.granted = lib.token.access_token]

\* refresh_token(): the try block once session.refresh_token has returned
refresh_try(c, lib, t) ==
    [Did([token   |-> lib.token,
          session |-> lib.session,
          tokens  |-> save_token(c.tokens, lib.token, t),
          issued  |-> c.issued + 1])
        EXCEPT !.ret = RetToken(lib.token), !.refresh = "ok",
               !.tokenReqs = 1, !.tokenStatus = lib.status,
               !.granted = lib.token.access_token]

\* refresh_token()
refresh_token(c, t, answer) ==
    IF falsy(c.token)
    THEN [Did(c) EXCEPT !.ret = RetNone, !.refresh = "failed"]
    ELSE LET lib == session_refresh_token(c.session, answer, c.issued + 1, t)
         IN  IF lib.raised # "none" THEN refresh_except(c, lib)
             ELSE refresh_try(c, lib, t)

\* the request of get() and post(): session.get / session.post with the
\* session's token, raise_for_status(), response.json()
api_request(r, status) ==
    [r EXCEPT !.apiReqs = 1,
              !.apiToken = dict_get(r.c.session.token, "access_token", Missing),
              !.ret = IF is_2xx(status) THEN RetJson ELSE RetNone]

\* a bug: the request is sent whatever refresh_token() returned
get_unguarded(c, t, answer, status) ==
    LET r == IF ~is_token_valid(c.token, t) THEN refresh_token(c, t, answer)
             ELSE Did(c)
    IN  api_request(r, status)

\* get(endpoint, params)
get(c, t, answer, status) ==
    LET r == IF ~is_token_valid(c.token, t) THEN refresh_token(c, t, answer)
             ELSE Did(c)
    IN  IF r.refresh # "not_called" /\ (r.ret = RetNone \/ r.exc # "none")
        THEN [r EXCEPT !.ret = RetNone]
        ELSE api_request(r, status)

\* a bug: a refresh that failed is tried once more
post_retrying(c, t, answer, status) ==
    LET r == IF ~is_token_valid(c.token, t) THEN refresh_token(c, t, answer)
             ELSE Did(c)
        again == refresh_token(r.c, t, answer)
    IN  IF r.refresh # "not_called" /\ (r.ret = RetNone \/ r.exc # "none")
        THEN [again EXCEPT !.ret = RetNone,
                           !.tokenReqs = r.tokenReqs + again.tokenReqs]
        ELSE api_request(r, status)

\* post(endpoint, data, json_data)
post(c, t, answer, status) ==
    LET r == IF ~is_token_valid(c.token, t) THEN refresh_token(c, t, answer)
             ELSE Did(c)
    IN  IF r.refresh # "not_called" /\ (r.ret = RetNone \/ r.exc # "none")
        THEN [r EXCEPT !.ret = RetNone]
        ELSE api_request(r, status)

----------------------------------------------------------------------------
(* The parts of the state before anything runs on them *)

\* no save_token and no load_token is running
NoConns ==
    [writer |-> [pc |-> 0, tok |-> None, exists |-> FALSE, txn |-> {},
                 base |-> {}],
     reader |-> [pc |-> "idle", result |-> None, base |-> {}, tok |-> None,
                 during |-> 0]]

\* no thread is inside get()
NoRacers == <<>>

\* DataRefreshManager.__init__: not running, no scheduler thread; the jobs of
\* the schedule module, the threads created so far with their positions,
\* the position of the thread that calls the manager's methods, the number
\* of refresh_data() executions begun and what the last call did
NoManager ==
    [running |-> FALSE, refresh_interval |-> "hourly", jobs |-> 0,
     due |-> FALSE, scheduler_thread |-> 0, threads |-> <<>>,
     caller |-> "idle", restart |-> FALSE, refreshes |-> 0, did |-> "none"]

\* GoHighLevelAPI.__init__
NoAgg == [op |-> "none"]

----------------------------------------------------------------------------
(* What the call that has just returned did.  `pre` is the in-memory token  *)
(* and the table as they were when the call started.                        *)

NoCall ==
    [op |-> "none", arg |-> None, ret |-> RetNone, exc |-> "none",
     refresh |-> "not_called", tokenReqs |-> 0, tokenStatus |-> 0,
     granted |-> "", apiReqs |-> 0, apiToken |-> "",
     pre |-> [token |-> None, tokens |-> {}]]

\* datetime.now() moves on between two calls
Tick ==
    /\ ticks < MaxTicks
    /\ \E dt \in ClockSteps : now' = now + dt
    /\ ticks' = ticks + 1
    /\ call' = NoCall
    /\ UNCHANGED <<tokens, token, session, issued>>
    /\ UNCHANGED <<conns, racers, mgr, agg>>

----------------------------------------------------------------------------
(* SpecStore: the token store on its own *)

\* the session of a client that holds no token
NoSession == [token |-> None, auto_refresh |-> FALSE]

\* the dicts handed to save_token: all five keys, any one or two of them
\* missing, or none at all
FullTokens ==
    [token_type : {"MAC"}, access_token : {"at1", "at2"},
     refresh_token : {"rt1"}, expires_at : {Epoch + 600},
     scope : {<<"a", "b">>}]

StoreTokens ==
    {[k \in D |-> full[k]] :
        full \in FullTokens,
        D \in {S \in SUBSET Fields : Cardinality(S) >= 3 \/ S = {}}}

InitStore ==
    /\ now = Epoch
    /\ ticks = 0
    /\ tokens = {}
    /\ token = None
    /\ session = NoSession
    /\ issued = 0
    /\ call = NoCall
    /\ conns = NoConns
    /\ racers = NoRacers
    /\ mgr = NoManager
    /\ agg = NoAgg

SaveToken ==
    \E tok \in StoreTokens :
        /\ tokens' = save_token(tokens, tok, now)
        /\ call' = [NoCall EXCEPT !.op = "save_token", !.arg = tok,
                                  !.pre = [token |-> token, tokens |-> tokens]]
        /\ UNCHANGED <<now, ticks, token, session, issued>>
        /\ UNCHANGED <<conns, racers, mgr, agg>>

LoadToken ==
    /\ call' = [NoCall EXCEPT !.op = "load_token",
                              !.ret = IF load_token(tokens) = None THEN RetNone
                                      ELSE RetToken(load_token(tokens)),
                              !.pre = [token |-> token, tokens |-> tokens]]
    /\ UNCHANGED <<now, ticks, tokens, token, session, issued>>
    /\ UNCHANGED <<conns, racers, mgr, agg>>

DeleteToken ==
    /\ tokens' = delete_token(tokens)
    /\ call' = [NoCall EXCEPT !.op = "delete_token",
                              !.pre = [token |-> token, tokens |-> tokens]]
    /\ UNCHANGED <<now, ticks, token, session, issued>>
    /\ UNCHANGED <<conns, racers, mgr, agg>>

NextStore == Tick \/ SaveToken \/ LoadToken \/ DeleteToken

SpecStore == InitStore /\ [][NextStore]_vars

----------------------------------------------------------------------------
(* Spec: one GoHighLevelOAuthClient working on the store *)

\* the tokens an earlier run of the application may have left in the store
StoredBefore ==
    {[k \in D |-> full[k]] :
        full \in [token_type : {"Bearer"}, access_token : {"at0"},
                  refresh_token : {"rt0"}, scope : {<<"a", "b">>},
                  expires_at : {Epoch + 300, Epoch + 301}],
        D \in {Fields, Fields \ {"refresh_token"}, Fields \ {"expires_at"}}}

\* the client as a value
Client == [token |-> token, session |-> session, tokens |-> tokens,
           issued |-> issued]

\* a method returns: the client and the store take the state it left
Returns(op, r) ==
    /\ r.c.issued <= MaxIssued
    /\ token' = r.c.token
    /\ session' = r.c.session
    /\ tokens' = r.c.tokens
    /\ issued' = r.c.issued
    /\ call' = [op |-> op, arg |-> None, ret |-> r.ret, exc |-> r.exc,
                refresh |-> r.refresh, tokenReqs |-> r.tokenReqs,
                tokenStatus |-> r.tokenStatus, granted |-> r.granted,
                apiReqs |-> r.apiReqs, apiToken |-> r.apiToken,
                pre |-> [token |-> token, tokens |-> tokens]]
    /\ UNCHANGED <<now, ticks>>
    /\ UNCHANGED <<conns, racers, mgr, agg>>

\* __init__: self.token = self._load_token(); self.session = self._create_session()
Init ==
    /\ now = Epoch
    /\ ticks = 0
    /\ tokens \in {{}} \cup {save_token({}, tok, Epoch) : tok \in StoredBefore}
    /\ token = load_token(tokens)
    /\ session = create_session(token)
    /\ issued = 0
    /\ call = NoCall
    /\ conns = NoConns
    /\ racers = NoRacers
    /\ mgr = NoManager
    /\ agg = NoAgg

\* a new GoHighLevelOAuthClient replaces the old one (oauth_callback builds
\* one per request)
Construct ==
    Returns("__init__",
            Did([token   |-> load_token(tokens),
                 session |-> create_session(load_token(tokens)),
                 tokens  |-> tokens,
                 issued  |-> issued]))

FetchToken ==
    \E answer \in TokenAnswers :
        Returns("fetch_token", fetch_token(Client, now, answer))

RefreshToken ==
    \E answer \in TokenAnswers :
        Returns("refresh_token", refresh_token(Client, now, answer))

Get ==
    \E answer \in TokenAnswers, status \in ApiStatuses :
        Returns("get", get(Client, now, answer, status))

Post ==
    \E answer \in TokenAnswers, status \in ApiStatuses :
        Returns("post", post(Client, now, answer, status))

Next == Tick \/ Construct \/ FetchToken \/ RefreshToken \/ Get \/ Post

Spec == Init /\ [][Next]_vars

----------------------------------------------------------------------------
(* SpecRW: save_token on one sqlite3 connection while load_token runs on    *)
(* another.  A connection sees what has been committed; what a connection   *)
(* has executed and not committed is seen by that connection alone.         *)

\* a bug: two UPDATE statements, each committed on its own
save_program_two_commits ==
    <<[op |-> "select", cols |-> {}],
      [op |-> "write",  cols |-> {"token_type", "access_token"}],
      [op |-> "commit", cols |-> {}],
      [op |-> "write",  cols |-> {"refresh_token", "expires_at", "scope"}],
      [op |-> "commit", cols |-> {}]>>

\* save_token: the statements it executes on its connection, in order: the
\* SELECT, the one UPDATE or INSERT that sets all five columns, conn.commit()
save_program ==
    <<[op |-> "select", cols |-> {}],
      [op |-> "write",  cols |-> Fields],
      [op |-> "commit", cols |-> {}]>>

\* a column that a statement did not set is NULL
sql_null == [token_type |-> "", access_token |-> "", refresh_token |-> "",
             expires_at |-> 0, scope |-> <<>>]

\* the UPDATE ... WHERE id = 1 (token_exists) or the INSERT of row 1 setting
\* the columns cols from the statement's parameters v; an INSERT of a second
\* row with id 1 fails on the primary key
sql_write(rows, exists, cols, v, t) ==
    IF exists
    THEN {IF r.id = 1
          THEN [c \in DOMAIN r |->
                   IF c \in cols THEN v[c]
                   ELSE IF c = "updated_at" THEN t ELSE r[c]]
          ELSE r : r \in rows}
    ELSE IF \E r \in rows : r.id = 1 THEN rows
    ELSE rows \cup {[c \in Fields \cup {"id", "created_at", "updated_at"} |->
                       IF c = "id" THEN 1
                       ELSE IF c \in {"created_at", "updated_at"} THEN t
                       ELSE IF c \in cols THEN v[c] ELSE sql_null[c]]}

\* the dicts the concurrent save_token is called with
RWTokens ==
    {[token_type |-> "MAC", access_token |-> "at1", refresh_token |-> "rt1",
      expires_at |-> Epoch + 600, scope |-> <<"a">>],
     [token_type |-> "Bearer", access_token |-> "at2", refresh_token |-> "rt2",
      expires_at |-> Epoch + 900, scope |-> <<"a", "b">>],
     [access_token |-> "at3", expires_at |-> Epoch + 300]}

InitRW ==
    /\ now = Epoch
    /\ ticks = 0
    /\ tokens \in {{}} \cup {save_token({}, tok, Epoch) : tok \in RWTokens}
    /\ token = None
    /\ session = NoSession
    /\ issued = 0
    /\ call = NoCall
    /\ conns = [NoConns EXCEPT !.writer.base = tokens, !.reader.base = tokens]
    /\ racers = NoRacers
    /\ mgr = NoManager
    /\ agg = NoAgg

\* save_token(tok) is called: init_db(), sqlite3.connect
SaveBegin ==
    /\ conns.writer.pc = 0
    /\ \E tok \in RWTokens :
          conns' = [conns EXCEPT !.writer = [pc |-> 1, tok |-> tok,
                                             exists |-> FALSE, txn |-> tokens,
                                             base |-> tokens]]
    /\ UNCHANGED <<clientvars, racers, mgr, agg>>

\* save_token executes its next statement; after the last one it returns
SaveStep ==
    LET w    == conns.writer
        stmt == save_program[w.pc]
        next == IF w.pc = Len(save_program) THEN 0 ELSE w.pc + 1
    IN  /\ w.pc \in 1..Len(save_program)
        /\ conns' = [conns EXCEPT
              !.writer.pc = next,
              !.writer.exists = IF stmt.op = "select"
                                THEN \E r \in tokens : r.id = 1
                                ELSE w.exists,
              !.writer.txn = IF stmt.op = "write"
                             THEN sql_write(w.txn, w.exists, stmt.cols,
                                            token_columns(w.tok), now)
                             ELSE w.txn]
        /\ tokens' = IF stmt.op = "commit" THEN w.txn ELSE tokens
        /\ UNCHANGED <<now, ticks, token, session, issued, call>>
        /\ UNCHANGED <<racers, mgr, agg>>

\* load_token() is called: init_db(), sqlite3.connect
LoadBegin ==
    /\ conns.reader.pc = "idle"
    /\ conns' = [conns EXCEPT !.reader.pc = "select"]
    /\ UNCHANGED <<clientvars, racers, mgr, agg>>

\* load_token: the SELECT and the dict built from its row; the table the
\* save in progress (or the last save) started from and its token are noted
LoadSelect ==
    /\ conns.reader.pc = "select"
    /\ conns' = [conns EXCEPT !.reader = [pc |-> "done",
                                          result |-> load_token(tokens),
                                          base |-> conns.writer.base,
                                          tok |-> conns.writer.tok,
                                          during |-> conns.writer.pc]]
    /\ UNCHANGED <<clientvars, racers, mgr, agg>>

\* load_token returns
LoadReturn ==
    /\ conns.reader.pc = "done"
    /\ conns' = [conns EXCEPT !.reader.pc = "idle"]
    /\ UNCHANGED <<clientvars, racers, mgr, agg>>

NextRW == SaveBegin \/ SaveStep \/ LoadBegin \/ LoadSelect \/ LoadReturn

SpecRW == InitRW /\ [][NextRW]_vars

----------------------------------------------------------------------------
(* SpecDisk: the client when the token database may fail.  save_token       *)
(* raises when sqlite3 cannot open or write the file (sqlite3.Error from    *)
(* connect, execute or commit); _save_token lets the exception through to   *)
(* the try block of fetch_token / refresh_token.                            *)

\* the database at the time of a call: it takes the write or it fails
DiskStates == {"ok", "fails"}

\* a bug: self.token is assigned before self._save_token(token) is called
save_failed_assigned(c, lib, how) ==
    [Did([c EXCEPT !.token = lib.token, !.session = lib.session,
                   !.issued = c.issued + 1])
        EXCEPT !.ret = RetNone, !.refresh = how, !.tokenReqs = 1,
               !.tokenStatus = lib.status,
               !.granted = lib.token.access_token]

\* the except block entered from self._save_token(token): the endpoint has
\* granted a token and the session holds it; self.token = token was not
\* reached and nothing was committed
save_failed(c, lib, how) ==
    [Did([c EXCEPT !.session = lib.session, !.issued = c.issued + 1])
        EXCEPT !.ret = RetNone, !.refresh = how, !.tokenReqs = 1,
               !.tokenStatus = lib.status,
               !.granted = lib.token.access_token]

\* fetch_token(authorization_response) on a database in state disk
fetch_token_disk(c, t, answer, disk) ==
    LET lib == session_fetch_token(c.session, answer, c.issued + 1, t)
    IN  IF lib.raised # "none" THEN fetch_except(c, lib)
        ELSE IF disk = "fails" THEN save_failed(c, lib, "not_called")
        ELSE fetch_try(c, lib, t)

\* refresh_token() on a database in state disk
refresh_token_disk(c, t, answer, disk) ==
    IF falsy(c.token)
    THEN [Did(c) EXCEPT !.ret = RetNone, !.refresh = "failed"]
    ELSE LET lib == session_refresh_token(c.session, answer, c.issued + 1, t)
         IN  IF lib.raised # "none" THEN refresh_except(c, lib)
             ELSE IF disk = "fails" THEN save_failed(c, lib, "failed")
             ELSE refresh_try(c, lib, t)

\* a method returns; the state of the database during the call is noted
DiskReturns(op, r, disk) ==
    /\ r.c.issued <= MaxIssued
    /\ token' = r.c.token
    /\ session' = r.c.session
    /\ tokens' = r.c.tokens
    /\ issued' = r.c.issued
    /\ call' = [op |-> op, arg |-> [disk |-> disk], ret |-> r.ret,
                exc |-> r.exc, refresh |-> r.refresh,
                tokenReqs |-> r.tokenReqs, tokenStatus |-> r.tokenStatus,
                granted |-> r.granted, apiReqs |-> r.apiReqs,
                apiToken |-> r.apiToken,
                pre |-> [token |-> token, tokens |-> tokens]]
    /\ UNCHANGED <<now, ticks>>
    /\ UNCHANGED <<conns, racers, mgr, agg>>

DiskFetchToken ==
    \E answer \in TokenAnswers, disk \in DiskStates :
        DiskReturns("fetch_token", fetch_token_disk(Client, now, answer, disk),
                    disk)

DiskRefreshToken ==
    \E answer \in TokenAnswers, disk \in DiskStates :
        DiskReturns("refresh_token",
                    refresh_token_disk(Client, now, answer, disk), disk)

NextDisk == Tick \/ DiskFetchToken \/ DiskRefreshToken

SpecDisk == Init /\ [][NextDisk]_vars

----------------------------------------------------------------------------
(* SpecClient: one GoHighLevelOAuthClient, every method of it, on a         *)
(* database that takes the writes or fails them.  The clock stands still;   *)
(* the lifetimes of the tokens make some of them valid and some due for     *)
(* refresh.                                                                 *)

NextClient ==
    Construct \/ DiskFetchToken \/ DiskRefreshToken \/ Get \/ Post

SpecClient == Init /\ [][NextClient]_vars

----------------------------------------------------------------------------
(* SpecRefresh: app/data_refresh.py, DataRefreshManager.  One thread calls  *)
(* start, stop, set_refresh_interval and manual_refresh; every start()      *)
(* that passes its guard creates a scheduler thread.  A thread is at        *)
(*   "created"  started, run_scheduler has not executed its first line      *)
(*   "initial"  inside the initial self.refresh_data()                      *)
(*   "loop"     in the while loop, between two schedule.run_pending()       *)
(*   "pending"  inside a refresh_data() that run_pending() called           *)
(*   "exited"   past the loop                                               *)
(* The code takes no lock, so the steps of the threads interleave freely.   *)

MaxThreads == 2
MaxRefreshes == 3

Intervals == {"hourly", "daily"}

\* the threads that are inside refresh_data()
Refreshing(m) ==
    {i \in DOMAIN m.threads : m.threads[i] \in {"initial", "pending"}}

\* the number of refresh_data() executions in flight
InFlight(m) ==
    Cardinality(Refreshing(m)) + (IF m.caller = "manual" THEN 1 ELSE 0)

\* refresh_data(): its entry; self.last_refresh is set, the placeholder file
\* and the status file are written before it returns
refresh_data(m) == [m EXCEPT !.refreshes = m.refreshes + 1]

\* start(): the guard, schedule.clear(), the new job, the new thread
start(m) ==
    IF m.running THEN [m EXCEPT !.did = "start_ignored"]
    ELSE [m EXCEPT !.jobs = 1, !.due = FALSE,
                   !.threads = Append(m.threads, "created"),
                   !.scheduler_thread = Len(m.threads) + 1,
                   !.did = "start"]

\* stop() up to the join: the guard, self.running = False
stop(m) ==
    IF ~m.running THEN [m EXCEPT !.did = "stop_ignored"]
    ELSE [m EXCEPT !.running = FALSE, !.caller = "join", !.did = "stop"]

InitRefresh ==
    /\ now = Epoch
    /\ ticks = 0
    /\ tokens = {}
    /\ token = None
    /\ session = NoSession
    /\ issued = 0
    /\ call = NoCall
    /\ conns = NoConns
    /\ racers = NoRacers
    /\ mgr = NoManager
    /\ agg = NoAgg

Start ==
    /\ mgr.caller = "idle"
    /\ Len(mgr.threads) < MaxThreads
    /\ mgr' = start(mgr)
    /\ UNCHANGED <<clientvars, conns, racers, agg>>

Stop ==
    /\ mgr.caller = "idle"
    /\ mgr' = [stop(mgr) EXCEPT !.restart = FALSE]
    /\ UNCHANGED <<clientvars, conns, racers, agg>>

\* set_refresh_interval(interval): the interval, _save_status(), and when
\* running stop() followed by start()
SetRefreshInterval ==
    /\ mgr.caller = "idle"
    /\ Len(mgr.threads) < MaxThreads
    /\ \E interval \in Intervals :
          LET m == [mgr EXCEPT !.refresh_interval = interval]
          IN  mgr' = IF m.running THEN [stop(m) EXCEPT !.restart = TRUE]
                     ELSE [m EXCEPT !.did = "set_refresh_interval"]
    /\ UNCHANGED <<clientvars, conns, racers, agg>>

\* stop(): self.scheduler_thread.join(timeout=5) returns, because the thread
\* has exited or, the thread being kept from its loop test, because the five
\* seconds are over; schedule.clear(); set_refresh_interval goes on to start()
StopJoin ==
    /\ mgr.caller = "join"
    /\ \/ mgr.scheduler_thread = 0
       \/ mgr.threads[mgr.scheduler_thread] # "loop"
    /\ LET m == [mgr EXCEPT !.jobs = 0, !.due = FALSE, !.caller = "idle",
                            !.restart = FALSE]
       IN  mgr' = IF mgr.restart THEN start(m) ELSE m
    /\ UNCHANGED <<clientvars, conns, racers, agg>>

\* manual_refresh(): it calls refresh_data()
ManualRefresh ==
    /\ mgr.caller = "idle"
    /\ mgr.refreshes < MaxRefreshes
    /\ mgr' = [refresh_data(mgr) EXCEPT !.caller = "manual",
                                        !.did = "manual_refresh"]
    /\ UNCHANGED <<clientvars, conns, racers, agg>>

\* manual_refresh(): refresh_data() returns
ManualReturn ==
    /\ mgr.caller = "manual"
    /\ mgr' = [mgr EXCEPT !.caller = "idle"]
    /\ UNCHANGED <<clientvars, conns, racers, agg>>

\* run_scheduler: self.running = True, then the initial refresh_data() begins
ThreadRun ==
    \E i \in DOMAIN mgr.threads :
        /\ mgr.threads[i] = "created"
        /\ mgr.refreshes < MaxRefreshes
        /\ mgr' = [refresh_data([mgr EXCEPT !.running = TRUE])
                      EXCEPT !.threads[i] = "initial"]
        /\ UNCHANGED <<clientvars, conns, racers, agg>>

\* the refresh_data() that a scheduler thread is in returns
RefreshReturn ==
    \E i \in Refreshing(mgr) :
        /\ mgr' = [mgr EXCEPT !.threads[i] = "loop"]
        /\ UNCHANGED <<clientvars, conns, racers, agg>>

\* the next run of the scheduled job comes
JobDue ==
    /\ mgr.jobs > 0
    /\ ~mgr.due
    /\ mgr' = [mgr EXCEPT !.due = TRUE]
    /\ UNCHANGED <<clientvars, conns, racers, agg>>

\* while self.running: schedule.run_pending() finds the job due and calls
\* refresh_data()
RunPending ==
    \E i \in DOMAIN mgr.threads :
        /\ mgr.threads[i] = "loop"
        /\ mgr.running
        /\ mgr.jobs > 0
        /\ mgr.due
        /\ mgr.refreshes < MaxRefreshes
        /\ mgr' = [refresh_data([mgr EXCEPT !.due = FALSE])
                      EXCEPT !.threads[i] = "pending"]
        /\ UNCHANGED <<clientvars, conns, racers, agg>>

\* while self.running: the test fails and run_scheduler ends
ThreadExit ==
    \E i \in DOMAIN mgr.threads :
        /\ mgr.threads[i] = "loop"
        /\ ~mgr.running
        /\ mgr' = [mgr EXCEPT !.threads[i] = "exited"]
        /\ UNCHANGED <<clientvars, conns, racers, agg>>

NextRefresh ==
    \/ Start \/ Stop \/ SetRefreshInterval \/ StopJoin
    \/ ManualRefresh \/ ManualReturn
    \/ ThreadRun \/ RefreshReturn \/ JobDue \/ RunPending \/ ThreadExit

SpecRefresh == InitRefresh /\ [][NextRefresh]_vars

----------------------------------------------------------------------------
(* SpecRace: several threads call get() and post() of one                   *)
(* GoHighLevelOAuthClient.  The client takes no lock; a thread can be       *)
(* suspended wherever it waits for the network, so get() and post() are     *)
(* cut at the two requests they send.  A thread is at                       *)
(*   "idle"        outside get() and post()                                 *)
(*   "check"       at the first line of the method                          *)
(*   "refreshing"  refresh request sent to the token endpoint, no answer yet*)
(*   "request"     past the refresh, before the request to the API          *)

MaxRacers == 2

\* a thread outside the client
IdleRacer == [op |-> "none", pc |-> "idle", sess |-> NoSession]

\* the threads that wait for the answer to a refresh request
RefreshesInFlight(rs) == {i \in DOMAIN rs : rs[i].pc = "refreshing"}

InitRace ==
    /\ now = Epoch
    /\ ticks = 0
    /\ tokens \in {{}} \cup {save_token({}, tok, Epoch) : tok \in StoredBefore}
    /\ token = load_token(tokens)
    /\ session = create_session(token)
    /\ issued = 0
    /\ call = NoCall
    /\ conns = NoConns
    /\ racers = [i \in 1..MaxRacers |-> IdleRacer]
    /\ mgr = NoManager
    /\ agg = NoAgg

\* a thread calls get() or post()
RaceCall ==
    \E i \in DOMAIN racers, op \in {"get", "post"} :
        /\ racers[i].pc = "idle"
        /\ racers' = [racers EXCEPT ![i] = [IdleRacer EXCEPT !.op = op,
                                                             !.pc = "check"]]
        /\ UNCHANGED <<clientvars, conns, mgr, agg>>

\* if not self.is_token_valid(): refresh_token() up to the moment its
\* request is on the wire; without a token refresh_token() returns None and
\* so does the method
RaceCheck ==
    \E i \in DOMAIN racers :
        /\ racers[i].pc = "check"
        /\ racers' = [racers EXCEPT ![i] =
              IF is_token_valid(token, now)
              THEN [racers[i] EXCEPT !.pc = "request"]
              ELSE IF falsy(token) THEN IdleRacer
              ELSE [racers[i] EXCEPT !.pc = "refreshing", !.sess = session]]
        /\ UNCHANGED <<clientvars, conns, mgr, agg>>

\* the token endpoint answers a refresh request: the rest of refresh_token()
\* and the test of its result
RaceRefreshAnswer ==
    \E i \in RefreshesInFlight(racers), answer \in TokenAnswers :
        LET lib == session_refresh_token(racers[i].sess, answer, issued + 1,
                                         now)
            r   == IF lib.raised # "none" THEN refresh_except(Client, lib)
                   ELSE refresh_try(Client, lib, now)
        IN  /\ r.c.issued <= MaxIssued
            /\ token' = r.c.token
            /\ session' = r.c.session
            /\ tokens' = r.c.tokens
            /\ issued' = r.c.issued
            /\ racers' = [racers EXCEPT ![i] =
                  IF r.ret = RetNone THEN IdleRacer
                  ELSE [racers[i] EXCEPT !.pc = "request"]]
            /\ UNCHANGED <<now, ticks, call, conns, mgr, agg>>

\* the request to the API with the session's token; the method returns
RaceRequest ==
    \E i \in DOMAIN racers :
        /\ racers[i].pc = "request"
        /\ racers' = [racers EXCEPT ![i] = IdleRacer]
        /\ UNCHANGED <<clientvars, conns, mgr, agg>>

NextRace == RaceCall \/ RaceCheck \/ RaceRefreshAnswer \/ RaceRequest

SpecRace == InitRace /\ [][NextRace]_vars

----------------------------------------------------------------------------
(* app/api_client.py: GoHighLevelAPI.process_data_for_dashboard.            *)
(*                                                                          *)
(* A date string is [ymd, time]: ymd is <<year, month, day>>, or <<>> for   *)
(* a string without a date in front, and time tells whether "T" and the     *)
(* time of day follow.  A monetaryValue is a JSON number or a JSON string.  *)
(* A Python dict that the code iterates over is the sequence of its         *)
(* <<key, value>> items in insertion order.                                 *)

\* ''
EmptyStr == [ymd |-> <<>>, time |-> FALSE]

\* 'YYYY-MM-DD' and 'YYYY-MM-DDTHH:MM:SSZ'
DateStr(d) == [ymd |-> d, time |-> FALSE]
Timestamp(d) == [ymd |-> d, time |-> TRUE]

\* a JSON number, a JSON string holding a number, a JSON string holding none
Number(n) == [kind |-> "number", v |-> n]
NumericStr(n) == [kind |-> "str", numeric |-> TRUE, v |-> n]
OtherStr == [kind |-> "str", numeric |-> FALSE, v |-> 0]

\* s.split('T')[0]
split_T_0(s) == [s EXCEPT !.time = FALSE]

\* float(x)
float(x) ==
    IF x = None THEN [exc |-> "TypeError", v |-> 0]
    ELSE IF x.kind = "number" THEN [exc |-> "none", v |-> x.v]
    ELSE IF x.numeric THEN [exc |-> "none", v |-> x.v]
    ELSE [exc |-> "ValueError", v |-> 0]

\* calendar of the datetime module
is_leap(y) == y % 4 = 0 /\ (y % 100 # 0 \/ y % 400 = 0)

days_in_month(y, m) ==
    IF m = 2 THEN (IF is_leap(y) THEN 29 ELSE 28)
    ELSE IF m \in {4, 6, 9, 11} THEN 30 ELSE 31

RECURSIVE days_before_month(_, _)
days_before_month(y, m) ==
    IF m = 1 THEN 0
    ELSE days_before_month(y, m - 1) + days_in_month(y, m - 1)

\* tm_yday - 1: the days of the year before the date
yday0(ymd) == days_before_month(ymd[1], ymd[2]) + ymd[3] - 1

\* date.toordinal(): 0001-01-01 is day 1
toordinal(ymd) ==
    LET y == ymd[1] - 1
    IN  y * 365 + y \div 4 - y \div 100 + y \div 400 + yday0(ymd) + 1

\* date.weekday(): Monday is 0
weekday(ymd) == (toordinal(ymd) + 6) % 7

\* the string is a valid date and nothing follows it
is_date(s) ==
    /\ Len(s.ymd) = 3
    /\ ~s.time
    /\ s.ymd[2] \in 1..12
    /\ s.ymd[3] \in 1..days_in_month(s.ymd[1], s.ymd[2])

\* a bug: the week is counted from the first Monday (%W)
strftime_Y_W_U_monday(ymd) ==
    [year |-> ymd[1], week |-> (yday0(ymd) + 7 - weekday(ymd)) \div 7]

\* date_obj.strftime('%Y-W%U'): the calendar year and the week of that year
\* counted from its first Sunday; the days before it are week 0
strftime_Y_W_U(ymd) ==
    [year |-> ymd[1],
     week |-> (yday0(ymd) + 7 - ((weekday(ymd) + 1) % 7)) \div 7]

\* date_str[:7]
month_of(s) ==
    IF s.ymd = <<>> THEN EmptyStr
    ELSE [year |-> s.ymd[1], month |-> s.ymd[2]]

\* the position of key k among the items of a dict, 0 when it is not a key
index_of(items, k) ==
    IF \E i \in DOMAIN items : items[i][1] = k
    THEN CHOOSE i \in DOMAIN items : items[i][1] = k
    ELSE 0

\* a bug: the value replaces the bucket's value
accumulate_overwrite(items, k, v) ==
    IF index_of(items, k) # 0
    THEN [items EXCEPT ![index_of(items, k)] = <<k, v>>]
    ELSE Append(items, <<k, v>>)

\* if k in d: d[k] += v  else: d[k] = v
accumulate(items, k, v) ==
    IF index_of(items, k) # 0
    THEN [items EXCEPT ![index_of(items, k)] = <<k, items[index_of(items, k)][2] + v>>]
    ELSE Append(items, <<k, v>>)

\* a bug: the creation date is taken although the record has a closedDate
date_str_created_first(opp) ==
    LET raw == dict_get(opp, "createdAt", dict_get(opp, "closedDate", EmptyStr))
    IN  IF raw = None THEN [exc |-> "AttributeError", s |-> EmptyStr]
        ELSE [exc |-> "none", s |-> split_T_0(raw)]

\* opp.get('closedDate', opp.get('createdAt', '')).split('T')[0]
date_str(opp) ==
    LET raw == dict_get(opp, "closedDate", dict_get(opp, "createdAt", EmptyStr))
    IN  IF raw = None THEN [exc |-> "AttributeError", s |-> EmptyStr]
        ELSE [exc |-> "none", s |-> split_T_0(raw)]

\* the loop over the opportunities of one category: the dict of daily values
RECURSIVE by_date(_)
by_date(opps) ==
    IF opps = <<>> THEN [exc |-> "none", items |-> <<>>]
    ELSE LET before == by_date(SubSeq(opps, 1, Len(opps) - 1))
             opp    == opps[Len(opps)]
             date   == date_str(opp)
             value  == float(dict_get(opp, "monetaryValue", Number(0)))
         IN  IF before.exc # "none" THEN before
             ELSE IF date.exc # "none"
                  THEN [exc |-> date.exc, items |-> <<>>]
             ELSE IF value.exc # "none"
                  THEN [exc |-> value.exc, items |-> <<>>]
             ELSE [exc |-> "none",
                   items |-> accumulate(before.items, date.s, value.v)]

\* the loop over the daily items: datetime.strptime(date_str, '%Y-%m-%d'),
\* strftime('%Y-W%U'), the dict of weekly values
RECURSIVE weekly(_)
weekly(daily) ==
    IF daily = <<>> THEN [exc |-> "none", items |-> <<>>]
    ELSE LET before == weekly(SubSeq(daily, 1, Len(daily) - 1))
             item   == daily[Len(daily)]
         IN  IF before.exc # "none" THEN before
             ELSE IF ~is_date(item[1])
                  THEN [exc |-> "ValueError", items |-> <<>>]
             ELSE [exc |-> "none",
                   items |-> accumulate(before.items,
                                        strftime_Y_W_U(item[1].ymd), item[2])]

\* the loop over the daily items: the dict of monthly values
RECURSIVE monthly(_)
monthly(daily) ==
    IF daily = <<>> THEN <<>>
    ELSE accumulate(monthly(SubSeq(daily, 1, Len(daily) - 1)),
                    month_of(daily[Len(daily)][1]), daily[Len(daily)][2])

\* the body of the loop over raw_data.items() for one location
process_location(location_data) ==
    LET retail == by_date(location_data.sold_retail)
        rental == by_date(location_data.sold_rental)
        wk_ret == weekly(retail.items)
        wk_ren == weekly(rental.items)
        exc    == IF retail.exc # "none" THEN retail.exc
                  ELSE IF rental.exc # "none" THEN rental.exc
                  ELSE IF wk_ret.exc # "none" THEN wk_ret.exc
                  ELSE wk_ren.exc
    IN  IF exc # "none" THEN [exc |-> exc]
        ELSE [exc |-> "none",
              daily_totals   |-> [retail |-> retail.items,
                                  rental |-> rental.items],
              weekly_totals  |-> [retail |-> wk_ret.items,
                                  rental |-> wk_ren.items],
              monthly_totals |-> [retail |-> monthly(retail.items),
                                  rental |-> monthly(rental.items)],
              lead_metrics   |-> location_data.lead_metrics]

\* process_data_for_dashboard(raw_data): the processed data by location, or
\* the exception that ends the call
process_data_for_dashboard(raw_data) ==
    IF \E loc \in DOMAIN raw_data : process_location(raw_data[loc]).exc # "none"
    THEN [exc |-> "raised",
          by  |-> {process_location(raw_data[loc]).exc : loc \in DOMAIN raw_data}
                     \ {"none"}]
    ELSE [exc |-> "none",
          locations |-> DOMAIN raw_data,
          totals |-> [loc \in DOMAIN raw_data |-> process_location(raw_data[loc])]]

----------------------------------------------------------------------------
(* SpecAgg: process_data_for_dashboard applied to any raw data of at most   *)
(* MaxOpps opportunities in a category                                      *)

MaxOpps == 3

\* the closing days and values of the opportunities
Sales == {<<<<2024, 12, 30>>, 100>>, <<<<2025, 1, 1>>, 100>>,
          <<<<2025, 1, 1>>, 50>>, <<<<2025, 1, 2>>, 200>>,
          <<<<2025, 1, 5>>, 50>>, <<<<2025, 1, 6>>, 100>>,
          <<<<2025, 2, 1>>, 200>>}

\* opportunities as the API returns them
GoodOpps ==
    {[closedDate |-> DateStr(sale[1]), monetaryValue |-> Number(sale[2])] :
        sale \in Sales}
    \cup {[closedDate |-> Timestamp(<<2025, 1, 1>>),
           createdAt |-> Timestamp(<<2024, 12, 30>>),
           monetaryValue |-> NumericStr(50)],
          [createdAt |-> Timestamp(<<2025, 1, 2>>),
           monetaryValue |-> Number(200)],
          [closedDate |-> DateStr(<<2025, 1, 2>>)]}

\* opportunities with a field that is null, absent or not of its type
BadOpps ==
    {[closedDate |-> DateStr(<<2025, 1, 1>>), monetaryValue |-> None],
     [closedDate |-> DateStr(<<2025, 1, 1>>), monetaryValue |-> OtherStr],
     [closedDate |-> None, createdAt |-> DateStr(<<2025, 1, 1>>),
      monetaryValue |-> Number(100)],
     [monetaryValue |-> Number(100)]}

Opps == GoodOpps \cup BadOpps

OppLists(n) == UNION {[1..k -> Opps] : k \in 0..n}

\* the other category of a location
OtherLists ==
    {<<>>, <<[closedDate |-> Timestamp(<<2025, 1, 5>>),
              monetaryValue |-> Number(50)]>>}

Locations == {"Magic Wheels Augusta", "Magic Wheels Macon"}

NoLeadMetrics ==
    [total_leads |-> 0, responded_leads |-> 0,
     response_rate |-> [num |-> 0, den |-> 1],
     avg_response_time_minutes |-> [num |-> 0, den |-> 1]]

InitAgg ==
    /\ now = Epoch
    /\ ticks = 0
    /\ tokens = {}
    /\ token = None
    /\ session = NoSession
    /\ issued = 0
    /\ call = NoCall
    /\ conns = NoConns
    /\ racers = NoRacers
    /\ mgr = NoManager
    /\ \E long \in OppLists(MaxOpps), short \in OtherLists :
          agg = [op |-> "raw_data",
                 raw_data |->
                    [loc \in Locations |->
                        IF loc = "Magic Wheels Augusta"
                        THEN [sold_retail |-> long, sold_rental |-> short,
                              lead_metrics |-> NoLeadMetrics]
                        ELSE [sold_retail |-> short, sold_rental |-> long,
                              lead_metrics |-> NoLeadMetrics]]]

\* a bug: the call takes the retail records out of the lists it was given
ProcessData_draining ==
    /\ agg.op = "raw_data"
    /\ agg' = [op |-> "process_data_for_dashboard",
               raw_data |->
                  [loc \in DOMAIN agg.raw_data |->
                      [agg.raw_data[loc] EXCEPT !.sold_retail = <<>>]],
               out |-> process_data_for_dashboard(agg.raw_data)]
    /\ UNCHANGED <<clientvars, conns, racers, mgr>>

ProcessData ==
    /\ agg.op = "raw_data"
    /\ agg' = [op |-> "process_data_for_dashboard",
               raw_data |-> agg.raw_data,
               out |-> process_data_for_dashboard(agg.raw_data)]
    /\ UNCHANGED <<clientvars, conns, racers, mgr>>

NextAgg == ProcessData

SpecAgg == InitAgg /\ [][NextAgg]_vars

----------------------------------------------------------------------------
(* app/api_client.py: GoHighLevelAPI.get_lead_response_metrics.  A          *)
(* timestamp of a contact is the number of seconds it stands for; a number  *)
(* that need not be whole is the fraction [num, den].                       *)

\* an ISO timestamp such as '2025-01-01T00:10:00Z'
IsoTime(secs) == [iso |-> secs]

\* Python's truth value of a field: None and '' are false
truthy(x) == x # None /\ x # EmptyStr

Zero == [num |-> 0, den |-> 1]

\* sum(1 for contact in contacts if contact.get('lastContactedDate'))
RECURSIVE responded_leads(_)
responded_leads(contacts) ==
    IF contacts = <<>> THEN 0
    ELSE responded_leads(SubSeq(contacts, 1, Len(contacts) - 1))
         + (IF truthy(dict_get(contacts[Len(contacts)], "lastContactedDate", None))
            THEN 1 ELSE 0)

\* the loop that fills response_times: the latencies, in seconds, of the
\* contacts whose createdAt and lastContactedDate are both set
RECURSIVE response_times(_)
response_times(contacts) ==
    IF contacts = <<>> THEN <<>>
    ELSE LET before    == response_times(SubSeq(contacts, 1, Len(contacts) - 1))
             created   == dict_get(contacts[Len(contacts)], "createdAt", None)
             contacted == dict_get(contacts[Len(contacts)], "lastContactedDate", None)
         IN  IF truthy(created) /\ truthy(contacted)
             THEN Append(before, contacted.iso - created.iso)
             ELSE before

RECURSIVE sum(_)
sum(xs) == IF xs = <<>> THEN 0 ELSE sum(SubSeq(xs, 1, Len(xs) - 1)) + xs[Len(xs)]

\* a bug: the mean is taken over all contacts
avg_response_time_over_all(contacts) ==
    IF response_times(contacts) # <<>>
    THEN [num |-> sum(response_times(contacts)), den |-> 60 * Len(contacts)]
    ELSE Zero

\* a bug: the division is made whether or not there is a time
avg_response_time_unguarded(contacts) ==
    [num |-> sum(response_times(contacts)),
     den |-> 60 * Len(response_times(contacts))]

\* sum(response_times) / len(response_times) if response_times else 0, the
\* times being total_seconds() / 60
avg_response_time(contacts) ==
    IF response_times(contacts) # <<>>
    THEN [num |-> sum(response_times(contacts)),
          den |-> 60 * Len(response_times(contacts))]
    ELSE Zero

\* a bug: the responded leads are the contacts that have a latency
get_lead_response_metrics_by_latency(contacts) ==
    [total_leads     |-> Len(contacts),
     responded_leads |-> Len(response_times(contacts)),
     response_rate   |-> IF Len(contacts) > 0
                         THEN [num |-> Len(response_times(contacts)),
                               den |-> Len(contacts)]
                         ELSE Zero,
     avg_response_time_minutes |-> avg_response_time(contacts)]

\* get_lead_response_metrics once get_contacts has returned contacts
get_lead_response_metrics(contacts) ==
    [total_leads     |-> Len(contacts),
     responded_leads |-> responded_leads(contacts),
     response_rate   |-> IF Len(contacts) > 0
                         THEN [num |-> responded_leads(contacts),
                               den |-> Len(contacts)]
                         ELSE Zero,
     avg_response_time_minutes |-> avg_response_time(contacts)]

----------------------------------------------------------------------------
(* SpecLeads: get_lead_response_metrics on any list of at most MaxContacts  *)
(* contacts                                                                 *)

MaxContacts == 3

\* midnight and the times of last contact
Midnight == 0
ContactTimes == {600, 1800}

Contacts ==
    {[createdAt |-> IsoTime(Midnight), lastContactedDate |-> IsoTime(t)] :
        t \in ContactTimes}
    \cup {[createdAt |-> IsoTime(Midnight)],
          [createdAt |-> IsoTime(Midnight), lastContactedDate |-> None],
          [lastContactedDate |-> IsoTime(600)],
          [createdAt |-> EmptyStr, lastContactedDate |-> IsoTime(1800)]}

ContactLists(n) == UNION {[1..k -> Contacts] : k \in 0..n}

InitLeads ==
    /\ now = Epoch
    /\ ticks = 0
    /\ tokens = {}
    /\ token = None
    /\ session = NoSession
    /\ issued = 0
    /\ call = NoCall
    /\ conns = NoConns
    /\ racers = NoRacers
    /\ mgr = NoManager
    /\ \E contacts \in ContactLists(MaxContacts) :
          agg = [op |-> "contacts", contacts |-> contacts]

LeadMetrics ==
    /\ agg.op = "contacts"
    /\ agg' = [op |-> "get_lead_response_metrics",
               contacts |-> agg.contacts,
               out |-> get_lead_response_metrics(agg.contacts)]
    /\ UNCHANGED <<clientvars, conns, racers, mgr>>

NextLeads == LeadMetrics

SpecLeads == InitLeads /\ [][NextLeads]_vars

----------------------------------------------------------------------------
(* app/api_client.py: GoHighLevelAPI.collect_pipeline_data and the calls    *)
(* to the API it is made of.  The API is a function api from the requests   *)
(* to their answers [status, body]; the body is the list that               *)
(* response.json() holds under the key the method reads.                    *)

\* the requests of the methods, by endpoint and path
LocationsRequest == <<"locations">>
PipelinesRequest(location_id) == <<"pipelines", location_id>>
StagesRequest(location_id, pipeline_id) == <<"stages", location_id, pipeline_id>>
OpportunitiesRequest(location_id, pipeline_id, stage_id) ==
    <<"opportunities", location_id, pipeline_id, stage_id>>
ContactsRequest(location_id) == <<"contacts", location_id>>

\* a bug: the body of a refused request is read
json_get_ignoring_status(api, request) == api[request].body

\* if response.status_code == 200: return response.json().get(key, [])
\* else: print the error, return []
json_get(api, request) ==
    IF api[request].status = 200 THEN api[request].body ELSE <<>>

\* get_locations(): the mapping of the location names to their ids, {} when
\* the request is refused
get_locations(api) ==
    LET locations_data == json_get(api, LocationsRequest)
    IN  [name \in {locations_data[i].name : i \in DOMAIN locations_data} |->
            locations_data[CHOOSE i \in DOMAIN locations_data :
                 /\ locations_data[i].name = name
                 /\ \A j \in DOMAIN locations_data :
                       locations_data[j].name = name => j <= i].id]

get_pipelines(api, location_id) == json_get(api, PipelinesRequest(location_id))

get_pipeline_stages(api, location_id, pipeline_id) ==
    json_get(api, StagesRequest(location_id, pipeline_id))

get_opportunities(api, location_id, pipeline_id, stage_id) ==
    json_get(api, OpportunitiesRequest(location_id, pipeline_id, stage_id))

get_contacts(api, location_id) == json_get(api, ContactsRequest(location_id))

\* the loop over the stages of a pipeline: the opportunities of a stage
\* become the location's sold_retail or sold_rental
RECURSIVE stages_loop(_, _, _, _, _)
stages_loop(location_data, api, location_id, pipeline_id, stages) ==
    IF stages = <<>> THEN location_data
    ELSE LET before == stages_loop(location_data, api, location_id,
                                   pipeline_id,
                                   SubSeq(stages, 1, Len(stages) - 1))
             stage  == stages[Len(stages)]
             opportunities == get_opportunities(api, location_id, pipeline_id,
                                                stage.id)
         IN  IF stage.name = "Sold Retail"
             THEN [before EXCEPT !.sold_retail = opportunities]
             ELSE IF stage.name = "Sold Rental"
             THEN [before EXCEPT !.sold_rental = opportunities]
             ELSE before

\* the loop over the pipelines of a location
RECURSIVE pipelines_loop(_, _, _, _, _)
pipelines_loop(location_data, api, location_id, pipelines, target_stages) ==
    IF pipelines = <<>> THEN location_data
    ELSE LET before   == pipelines_loop(location_data, api, location_id,
                                        SubSeq(pipelines, 1, Len(pipelines) - 1),
                                        target_stages)
             pipeline == pipelines[Len(pipelines)]
             stages   == get_pipeline_stages(api, location_id, pipeline.id)
             wanted(s) == s.name \in target_stages
         IN  stages_loop(before, api, location_id, pipeline.id,
                         IF target_stages # {} THEN SelectSeq(stages, wanted)
                         ELSE stages)

\* the body of the loop over the locations
collect_location(api, location_id, target_stages) ==
    [pipelines_loop([sold_retail |-> <<>>, sold_rental |-> <<>>,
                     lead_metrics |-> <<>>],
                    api, location_id, get_pipelines(api, location_id),
                    target_stages)
        EXCEPT !.lead_metrics =
                  get_lead_response_metrics(get_contacts(api, location_id))]

\* collect_pipeline_data(target_locations, target_stages) of an object that
\* has not loaded the locations yet
collect_pipeline_data(api, target_locations, target_stages) ==
    LET locations == get_locations(api)
        names == IF target_locations # {}
                 THEN DOMAIN locations \cap target_locations
                 ELSE DOMAIN locations
    IN  [name \in names |->
            collect_location(api, locations[name], target_stages)]

----------------------------------------------------------------------------
(* SpecCollect: collect_pipeline_data(SUB_ACCOUNTS, PIPELINE_STAGES) against*)
(* an account of three locations, each request answered or refused          *)

PIPELINE_STAGES == {"Sold Retail", "Sold Rental"}

\* the account: its locations, their pipelines, stages, opportunities and
\* contacts
CrmLocations ==
    <<[name |-> "Magic Wheels Augusta", id |-> "loc_a"],
      [name |-> "Magic Wheels Macon", id |-> "loc_m"],
      [name |-> "Head Office", id |-> "loc_h"]>>

CrmPipelines(location_id) ==
    IF location_id = "loc_a"
    THEN <<[id |-> "p1", name |-> "Sales"], [id |-> "p2", name |-> "Fleet"]>>
    ELSE <<[id |-> "p1", name |-> "Sales"]>>

CrmStages(location_id, pipeline_id) ==
    IF pipeline_id = "p1"
    THEN <<[id |-> "s1", name |-> "New Lead"],
           [id |-> "s2", name |-> "Sold Retail"],
           [id |-> "s3", name |-> "Sold Rental"]>>
    ELSE <<[id |-> "s2", name |-> "Sold Retail"]>>

CrmOpportunities(location_id, pipeline_id, stage_id) ==
    <<[id |-> <<location_id, pipeline_id, stage_id>>,
       closedDate |-> Timestamp(<<2025, 1, 1>>),
       monetaryValue |-> Number(100)]>>

CrmContacts(location_id) ==
    <<[id |-> location_id, createdAt |-> IsoTime(Midnight),
       lastContactedDate |-> IsoTime(600)]>>

\* the locations of the account that are in SUB_ACCOUNTS, their pipelines
\* and the stages of a pipeline that are in PIPELINE_STAGES
TargetIds ==
    {CrmLocations[i].id : i \in {i \in DOMAIN CrmLocations :
                                    CrmLocations[i].name \in Locations}}

TargetPipelines ==
    UNION {{<<l, CrmPipelines(l)[i].id>> : i \in DOMAIN CrmPipelines(l)} :
           l \in TargetIds}

TargetStages(l, p) ==
    {CrmStages(l, p)[i].id : i \in {i \in DOMAIN CrmStages(l, p) :
                                       CrmStages(l, p)[i].name \in PIPELINE_STAGES}}

\* the requests that collect_pipeline_data(SUB_ACCOUNTS, PIPELINE_STAGES)
\* sends when no request is refused
Requests ==
    {LocationsRequest}
    \cup {PipelinesRequest(l) : l \in TargetIds}
    \cup {ContactsRequest(l) : l \in TargetIds}
    \cup {StagesRequest(lp[1], lp[2]) : lp \in TargetPipelines}
    \cup UNION {{OpportunitiesRequest(lp[1], lp[2], st) :
                    st \in TargetStages(lp[1], lp[2])} : lp \in TargetPipelines}

\* what the account holds for a request
Body(request) ==
    CASE request[1] = "locations"     -> CrmLocations
      [] request[1] = "pipelines"     -> CrmPipelines(request[2])
      [] request[1] = "stages"        -> CrmStages(request[2], request[3])
      [] request[1] = "opportunities" ->
            CrmOpportunities(request[2], request[3], request[4])
      [] request[1] = "contacts"      -> CrmContacts(request[2])

\* the API answers every request with its data or refuses it
Apis ==
    {[request \in Requests |->
         [status |-> statuses[request], body |-> Body(request)]] :
     statuses \in [Requests -> ApiStatuses]}

InitCollect ==
    /\ now = Epoch
    /\ ticks = 0
    /\ tokens = {}
    /\ token = None
    /\ session = NoSession
    /\ issued = 0
    /\ call = NoCall
    /\ conns = NoConns
    /\ racers = NoRacers
    /\ mgr = NoManager
    /\ \E api \in Apis : agg = [op |-> "api", api |-> api]

CollectPipelineData ==
    /\ agg.op = "api"
    /\ agg' = [op |-> "collect_pipeline_data",
               api |-> agg.api,
               out |-> collect_pipeline_data(agg.api, Locations,
                                             PIPELINE_STAGES)]
    /\ UNCHANGED <<clientvars, conns, racers, mgr>>

NextCollect == CollectPipelineData

SpecCollect == InitCollect /\ [][NextCollect]_vars

----------------------------------------------------------------------------
(* app/api_client.py: GoHighLevelAPI.generate_daily_summary, and            *)
(* app/dashboard_design.py: DashboardDesign.generate_summary_text with the  *)
(* callback that calls it                                                   *)

\* (datetime.now() - timedelta(days=1)).strftime('%Y-%m-%d')
yesterday(today) ==
    IF today[3] > 1 THEN DateStr(<<today[1], today[2], today[3] - 1>>)
    ELSE IF today[2] > 1
         THEN DateStr(<<today[1], today[2] - 1,
                        days_in_month(today[1], today[2] - 1)>>)
    ELSE DateStr(<<today[1] - 1, 12, 31>>)

\* processed_data['daily_totals'][location][category].get(yesterday, 0)
sales_of(daily, today) ==
    IF index_of(daily, yesterday(today)) # 0
    THEN daily[index_of(daily, yesterday(today))][2]
    ELSE 0

\* the total that the loop over the locations adds up
RECURSIVE total_sales(_, _, _, _)
total_sales(processed_data, locations, category, today) ==
    IF locations = {} THEN 0
    ELSE LET location == CHOOSE l \in locations : TRUE
         IN  sales_of(processed_data.totals[location].daily_totals[category],
                      today)
             + total_sales(processed_data, locations \ {location}, category,
                           today)

\* generate_daily_summary(processed_data) on the day today
generate_daily_summary(processed_data, today) ==
    LET retail_sales(location) ==
            sales_of(processed_data.totals[location].daily_totals.retail, today)
        rental_sales(location) ==
            sales_of(processed_data.totals[location].daily_totals.rental, today)
    IN  [date |-> DateStr(today),
         total_retail_sales |->
            total_sales(processed_data, processed_data.locations, "retail",
                        today),
         total_rental_sales |->
            total_sales(processed_data, processed_data.locations, "rental",
                        today),
         location_performance |->
            [location \in processed_data.locations |->
                [retail_sales |-> retail_sales(location),
                 rental_sales |-> rental_sales(location),
                 total_sales  |-> retail_sales(location)
                                     + rental_sales(location)]],
         lead_response |->
            [location \in processed_data.locations |->
                processed_data.totals[location].lead_metrics]]

\* max(values) and min(values) of a list that is not empty
max(values) ==
    CHOOSE v \in {values[i] : i \in DOMAIN values} :
        \A i \in DOMAIN values : values[i] <= v

min(values) ==
    CHOOSE v \in {values[i] : i \in DOMAIN values} :
        \A i \in DOMAIN values : v <= values[i]

\* a bug: the last position of the value
index_last(values, v) ==
    CHOOSE i \in DOMAIN values :
        values[i] = v /\ \A j \in DOMAIN values : values[j] = v => j <= i

\* values.index(v): the first position of the value
index(values, v) ==
    CHOOSE i \in DOMAIN values :
        values[i] = v /\ \A j \in DOMAIN values : values[j] = v => i <= j

\* generate_summary_text(data): the locations that the text names;
\* location_data is the dict of the locations in the order of their insertion
generate_summary_text(location_data) ==
    LET locations == [i \in DOMAIN location_data |-> location_data[i][1]]
        values(metric) ==
            [i \in DOMAIN location_data |-> location_data[i][2][metric]]
    IN  IF location_data = <<>> THEN [exc |-> "ValueError"]
        ELSE [exc |-> "none",
              top_retail_loc |->
                 locations[index(values("sold_retail"),
                                 max(values("sold_retail")))],
              top_rental_loc |->
                 locations[index(values("sold_rental"),
                                 max(values("sold_rental")))],
              best_response_rate_loc |->
                 locations[index(values("lead_response_rate"),
                                 max(values("lead_response_rate")))],
              best_response_time_loc |->
                 locations[index(values("avg_response_time"),
                                 min(values("avg_response_time")))]]

----------------------------------------------------------------------------
(* SpecReport: the functions that turn raw data into the dashboard's data,  *)
(* applied to any raw data of at most MaxOpps opportunities in a category   *)
(* and to any contact list of at most MaxContacts contacts, and the         *)
(* callback of the dashboard on the data of the selected locations         *)

\* the days on which the summary is generated
Todays == {<<2025, 1, 1>>, <<2025, 1, 2>>, <<2025, 1, 6>>, <<2025, 3, 1>>}

\* the locations of the dashboard's dropdown
DashboardLocations ==
    {"Magic Wheels Augusta", "Magic Wheels Columbus", "Magic Wheels Macon"}

\* the sums that generate_sample_data draws for a location
SampleValues == {1, 2}

\* the selections of the dropdown: lists of distinct locations
Selections ==
    {s \in UNION {[1..k -> DashboardLocations] : k \in 1..Cardinality(DashboardLocations)} :
        \A i, j \in DOMAIN s : s[i] = s[j] => i = j}

\* the dashboard before its callback has run
InitDashboard ==
    /\ now = Epoch
    /\ ticks = 0
    /\ tokens = {}
    /\ token = None
    /\ session = NoSession
    /\ issued = 0
    /\ call = NoCall
    /\ conns = NoConns
    /\ racers = NoRacers
    /\ mgr = NoManager
    /\ agg = [op |-> "dashboard"]

InitReport == InitAgg \/ InitLeads \/ InitDashboard

\* a second call on the raw data of the first
ProcessDataAgain ==
    /\ agg.op = "process_data_for_dashboard"
    /\ agg' = [op |-> "process_data_for_dashboard again",
               raw_data |-> agg.raw_data,
               first |-> agg.out,
               out |-> process_data_for_dashboard(agg.raw_data)]
    /\ UNCHANGED <<clientvars, conns, racers, mgr>>

GenerateDailySummary ==
    /\ agg.op = "process_data_for_dashboard"
    /\ agg.out.exc = "none"
    /\ \E today \in Todays :
          agg' = [op |-> "generate_daily_summary",
                  processed_data |-> agg.out,
                  today |-> today,
                  out |-> generate_daily_summary(agg.out, today)]
    /\ UNCHANGED <<clientvars, conns, racers, mgr>>

\* update_charts: generate_sample_data draws the data of the selected
\* locations, generate_summary_text names the best of them
UpdateCharts ==
    /\ agg.op = "dashboard"
    /\ \E locations \in Selections :
       \E drawn \in [DOMAIN locations ->
                        [{"sold_retail", "sold_rental", "lead_response_rate",
                          "avg_response_time"} -> SampleValues]] :
          LET location_data ==
                  [i \in DOMAIN locations |-> <<locations[i], drawn[i]>>]
          IN  agg' = [op |-> "update_charts",
                      location_data |-> location_data,
                      out |-> generate_summary_text(location_data)]
    /\ UNCHANGED <<clientvars, conns, racers, mgr>>

NextReport ==
    \/ ProcessData
    \/ LeadMetrics
    \/ ProcessDataAgain
    \/ GenerateDailySummary
    \/ UpdateCharts

SpecReport == InitReport /\ [][NextReport]_vars

----------------------------------------------------------------------------
(* Properties *)

\* the token persisted when the call started
StoredBefore_call == load_token(call.pre.tokens)

\* what load_token() returns for a key the saved dict did not have
StoreDefault ==
    [token_type |-> "Bearer", access_token |-> "", refresh_token |-> "",
     expires_at |-> 0, scope |-> <<>>]

\* the store holds tok: load_token() returns tok's value for each of the five
\* fields tok has, and the store's default for a field tok lacks
Persisted(tok, rows) ==
    /\ load_token(rows) # None
    /\ \A f \in Fields :
          load_token(rows)[f] = dict_get(tok, f, StoreDefault[f])

\* C1: a get() or post() that finds a stored token with expires_at at least
\* 301 seconds ahead sends the API request, sends nothing to the token
\* endpoint, and leaves the in-memory token and the persisted row as they were.
C1_ValidTokenIsUsedAsIs ==
    (/\ call.op \in {"get", "post"}
     /\ StoredBefore_call # None
     /\ StoredBefore_call.expires_at >= now + 301)
    => /\ call.refresh = "not_called"
       /\ call.tokenReqs = 0
       /\ call.apiReqs = 1
       /\ token = call.pre.token
       /\ tokens = call.pre.tokens

C1_Witness ==
    /\ call.op = "post"
    /\ StoredBefore_call # None
    /\ StoredBefore_call.expires_at = now + 301
    /\ call.apiReqs = 1

\* C2: a get() or post() that finds a stored token with expires_at less than
\* 300 seconds ahead (or past) sends exactly one refresh request; when the
\* refresh succeeds the API request carries the granted token, which is then
\* the in-memory token and the persisted token.
C2_ExpiredTokenIsRefreshedOnce ==
    (/\ call.op \in {"get", "post"}
     /\ StoredBefore_call # None
     /\ StoredBefore_call.expires_at < now + 300)
    => /\ call.tokenReqs = 1
       /\ call.refresh = "ok" =>
             /\ call.granted # ""
             /\ call.apiReqs = 1
             /\ call.apiToken = call.granted
             /\ token # None
             /\ token.access_token = call.granted
             /\ token # call.pre.token
             /\ Persisted(token, tokens)

C2_Witness ==
    /\ call.op = "get"
    /\ StoredBefore_call # None
    /\ StoredBefore_call.expires_at = now + 299
    /\ call.refresh = "ok"
    /\ call.apiReqs = 1

\* C3: is_token_valid() is true exactly when a token is stored and
\* now < expires_at - 300; with expires_at exactly 300 seconds ahead, with no
\* expires_at (stored as 0) and with no token it is false.
C3_ValidIffBeyondBuffer ==
    is_token_valid(token, now)
        <=> (/\ load_token(tokens) # None
             /\ now < load_token(tokens).expires_at - 300)

C3_Witness ==
    /\ load_token(tokens) # None
    /\ load_token(tokens).expires_at = now + 300
    /\ ~is_token_valid(token, now)

\* C4: when refresh_token() fails, the in-memory token and the persisted row
\* are what they were before the call.
C4_FailedRefreshKeepsToken ==
    call.refresh = "failed"
    => /\ token = call.pre.token
       /\ tokens = call.pre.tokens

C4_Witness ==
    /\ call.op = "refresh_token"
    /\ call.refresh = "failed"
    /\ call.tokenStatus = 400
    /\ call.pre.tokens # {}
    /\ StoredBefore_call.refresh_token # ""

\* C5 as stated: a failed refresh_token() reaches the caller as an
\* AuthenticationError.
C5_FailedRefreshRaises ==
    (call.op = "refresh_token" /\ call.refresh = "failed")
    => call.exc = "AuthenticationError"

\* C5: a failed refresh_token() (no token, absent or revoked refresh_token,
\* request rejected) raises nothing; the caller gets the return value None.
C5_FailedRefreshReturnsNone ==
    (call.op = "refresh_token" /\ call.refresh = "failed")
    => /\ call.exc = "none"
       /\ call.ret = RetNone

C5_Witness ==
    /\ call.op = "refresh_token"
    /\ call.refresh = "failed"
    /\ call.tokenReqs = 1
    /\ StoredBefore_call # None
    /\ StoredBefore_call.refresh_token = ""

\* C6 as stated: with no token stored, get() and post() fail with
\* AuthenticationError, send nothing, and the store stays empty.
C6_NoTokenRaises ==
    (call.op \in {"get", "post"} /\ call.pre.tokens = {})
    => /\ call.exc = "AuthenticationError"
       /\ call.tokenReqs = 0
       /\ call.apiReqs = 0
       /\ tokens = {}

\* C6: with no token stored, get() and post() return None without raising,
\* send nothing to the CRM API or to the token endpoint, and the store stays
\* empty.
C6_NoTokenReturnsNone ==
    (call.op \in {"get", "post"} /\ call.pre.tokens = {})
    => /\ call.ret = RetNone
       /\ call.exc = "none"
       /\ call.tokenReqs = 0
       /\ call.apiReqs = 0
       /\ tokens = {}
       /\ token = None

C6_Witness ==
    /\ call.op = "get"
    /\ call.pre.tokens = {}
    /\ call.pre.token = None
    /\ call.refresh = "failed"

\* C7: after a successful fetch_token() the returned token is the in-memory
\* token and load_token() reads the same token back, whether or not the store
\* held a token before.
C7_FetchedTokenIsStored ==
    (call.op = "fetch_token" /\ call.ret # RetNone)
    => /\ call.ret = RetToken(token)
       /\ token.access_token = call.granted
       /\ Persisted(token, tokens)

C7_Witness ==
    /\ call.op = "fetch_token"
    /\ call.ret # RetNone
    /\ call.pre.tokens # {}
    /\ StoredBefore_call.access_token # call.granted

\* C8 as stated: fetch_token() fails with AuthenticationError on a non-2xx
\* answer of the token endpoint and changes neither token.
C8_RejectedFetchRaises ==
    (call.op = "fetch_token" /\ call.tokenReqs = 1 /\ ~is_2xx(call.tokenStatus))
    => /\ call.exc = "AuthenticationError"
       /\ token = call.pre.token
       /\ tokens = call.pre.tokens

\* C8: on a non-2xx answer of the token endpoint fetch_token() returns None
\* without raising, and neither the in-memory token nor the persisted token
\* changes.
C8_RejectedFetchReturnsNone ==
    (call.op = "fetch_token" /\ call.tokenReqs = 1 /\ ~is_2xx(call.tokenStatus))
    => /\ call.ret = RetNone
       /\ call.exc = "none"
       /\ token = call.pre.token
       /\ tokens = call.pre.tokens

C8_Witness ==
    /\ call.op = "fetch_token"
    /\ call.tokenStatus = 500
    /\ call.pre.tokens # {}

\* C9: the tokens table never holds more than one row, and that row has id 1;
\* a save_token on a non-empty store overwrites the row.
C9_SingleRowWithId1 ==
    /\ Cardinality(tokens) <= 1
    /\ \A r \in tokens : r.id = 1

C9_Witness ==
    /\ call.op = "save_token"
    /\ call.pre.tokens # {}
    /\ tokens # call.pre.tokens
    /\ Cardinality(tokens) = 1

\* C10: after save_token(t), load_token() returns t's value for every field
\* t has and the store's default for every field t lacks; no value of the
\* token saved before survives.
C10_SaveReplacesAllFields ==
    call.op = "save_token"
    => /\ load_token(tokens) # None
       /\ \A f \in Fields :
             load_token(tokens)[f] =
                 IF f \in DOMAIN call.arg THEN call.arg[f] ELSE StoreDefault[f]

C10_Witness ==
    /\ call.op = "save_token"
    /\ call.pre.tokens # {}
    /\ \E f \in Fields \ DOMAIN call.arg :
          StoredBefore_call[f] # StoreDefault[f]
    /\ \E f \in DOMAIN call.arg :
          StoredBefore_call[f] \notin {call.arg[f], StoreDefault[f]}

\* C11: a load_token() that runs while a save_token() is in progress returns
\* the token stored before the save or the token being saved, all five
\* fields from the one or all five from the other.
C11_LoadSeesWholeToken ==
    conns.reader.pc = "done"
    => \/ conns.reader.result = load_token(conns.reader.base)
       \/ /\ conns.reader.tok # None
          /\ conns.reader.result # None
          /\ \A f \in Fields :
                conns.reader.result[f] =
                    dict_get(conns.reader.tok, f, StoreDefault[f])

C11_Witness ==
    /\ conns.reader.pc = "done"
    /\ conns.reader.during = 3
    /\ conns.reader.base # {}
    /\ conns.reader.result = load_token(conns.reader.base)
    /\ \A f \in Fields :
          conns.reader.result[f] # dict_get(conns.reader.tok, f, StoreDefault[f])

\* the call that has just returned was granted a token by the endpoint and
\* could not write it to the database
SaveFailed ==
    /\ call.op \in {"fetch_token", "refresh_token"}
    /\ call.arg = [disk |-> "fails"]
    /\ call.granted # ""

\* C12 as stated: a failed write of the token during fetch_token() or
\* refresh_token() reaches the caller as a StorageError, and self.token is
\* the token held before the call.
C12_FailedSaveRaisesStorageError ==
    SaveFailed => /\ call.exc = "StorageError"
                  /\ token = call.pre.token

\* C12, amended: a failed write of the token during fetch_token() or
\* refresh_token() makes the call return None without raising; self.token
\* and the stored row are the ones from before the call.
C12_FailedSaveReturnsNone ==
    SaveFailed => /\ call.ret = RetNone
                  /\ call.exc = "none"
                  /\ token = call.pre.token
                  /\ tokens = call.pre.tokens

C12_Witness ==
    /\ SaveFailed
    /\ call.op = "refresh_token"
    /\ token # None
    /\ token = call.pre.token
    /\ session.token # token
    /\ session.token.access_token = call.granted

\* C13: at most one execution of refresh_data() is in flight in every
\* reachable state of DataRefreshManager (a refresh triggered while another
\* is running is skipped).
C13_AtMostOneRefreshInFlight == InFlight(mgr) <= 1

\* C14: when several threads call get() or post() while the token is
\* expired, at most one refresh request to the token endpoint is in flight
\* at any time.
C14_AtMostOneRefreshRequestInFlight ==
    Cardinality(RefreshesInFlight(racers)) <= 1

\* process_data_for_dashboard has returned
Processed == agg.op = "process_data_for_dashboard" /\ agg.out.exc = "none"

Categories == {"retail", "rental"}

\* the opportunities of a category in the raw data of a location
RawOpps(loc, cat) ==
    IF cat = "retail" THEN agg.raw_data[loc].sold_retail
    ELSE agg.raw_data[loc].sold_rental

\* the calendar day of a record: of its closedDate, or of its createdAt when
\* it has no closedDate
DayOf(opp) ==
    LET s == IF "closedDate" \in DOMAIN opp THEN opp.closedDate
             ELSE IF "createdAt" \in DOMAIN opp THEN opp.createdAt
             ELSE EmptyStr
    IN  IF s = None THEN <<>> ELSE s.ymd

\* the monetaryValue of a record as a number
ValueOf(opp) == IF "monetaryValue" \in DOMAIN opp THEN opp.monetaryValue.v ELSE 0

\* the sum of f over the indices 1..n of a sequence
RECURSIVE SumTo(_, _)
SumTo(f, n) == IF n = 0 THEN 0 ELSE SumTo(f, n - 1) + f[n]

\* the sum of the values of the records of a list whose day is d
DaySum(opps, d) ==
    SumTo([i \in DOMAIN opps |-> IF DayOf(opps[i]) = d THEN ValueOf(opps[i])
                                 ELSE 0], Len(opps))

\* the keys of a dict are distinct
DistinctKeys(items) ==
    \A i, j \in DOMAIN items : items[i][1] = items[j][1] => i = j

\* C15: for each location and category the daily buckets are keyed by the
\* calendar days of the records (closedDate, or createdAt when closedDate is
\* absent), one bucket per day, and the value of a bucket is the sum of
\* monetaryValue over exactly the records of that day.
C15_DailyBucketsSumRecordsOfDay ==
    Processed =>
        \A loc \in Locations, cat \in Categories :
            LET opps  == RawOpps(loc, cat)
                daily == agg.out.totals[loc].daily_totals[cat]
            IN  /\ DistinctKeys(daily)
                /\ {daily[i][1] : i \in DOMAIN daily}
                      = {DateStr(DayOf(opps[j])) : j \in DOMAIN opps}
                /\ \A i \in DOMAIN daily :
                      daily[i][2] = DaySum(opps, daily[i][1].ymd)

\* the scenario of the specification: 100 and 50 on 2025-01-01 and 200 on
\* 2025-01-02 give {2025-01-01: 150, 2025-01-02: 200}
C15_Witness ==
    /\ Processed
    /\ agg.raw_data["Magic Wheels Augusta"].sold_retail =
          <<[closedDate |-> DateStr(<<2025, 1, 1>>), monetaryValue |-> Number(100)],
            [closedDate |-> DateStr(<<2025, 1, 1>>), monetaryValue |-> Number(50)],
            [closedDate |-> DateStr(<<2025, 1, 2>>), monetaryValue |-> Number(200)]>>
    /\ agg.out.totals["Magic Wheels Augusta"].daily_totals.retail =
          <<<<DateStr(<<2025, 1, 1>>), 150>>, <<DateStr(<<2025, 1, 2>>), 200>>>>

\* the sum of the values of a dict
Total(items) == SumTo([i \in DOMAIN items |-> items[i][2]], Len(items))

\* the sum of the values of the daily items that key(day) maps to k
SumOfKey(daily, key(_), k) ==
    SumTo([i \in DOMAIN daily |-> IF key(daily[i][1]) = k THEN daily[i][2]
                                  ELSE 0], Len(daily))

WeekOf(s) == strftime_Y_W_U(s.ymd)

\* the buckets of a roll-up are the keys of the daily buckets, one bucket a
\* key, each the sum of the daily buckets of that key
RollsUp(daily, rolled, key(_)) ==
    /\ DistinctKeys(rolled)
    /\ {rolled[i][1] : i \in DOMAIN rolled}
          = {key(daily[j][1]) : j \in DOMAIN daily}
    /\ \A i \in DOMAIN rolled :
          rolled[i][2] = SumOfKey(daily, key, rolled[i][1])

\* C16: each monthly bucket is the sum of the daily buckets of that month
\* and each weekly bucket the sum of the daily buckets of its week; the
\* totals over the weekly, the monthly and the daily buckets are equal.
C16_RollUpsConserveDailyTotals ==
    Processed =>
        \A loc \in Locations, cat \in Categories :
            LET daily == agg.out.totals[loc].daily_totals[cat]
                wk    == agg.out.totals[loc].weekly_totals[cat]
                mo    == agg.out.totals[loc].monthly_totals[cat]
            IN  /\ RollsUp(daily, wk, WeekOf)
                /\ RollsUp(daily, mo, month_of)
                /\ Total(wk) = Total(daily)
                /\ Total(mo) = Total(daily)

\* three days, two of them in one week and one month, the third in another
\* month
C16_Witness ==
    /\ Processed
    /\ LET daily == agg.out.totals["Magic Wheels Augusta"].daily_totals.retail
           wk    == agg.out.totals["Magic Wheels Augusta"].weekly_totals.retail
           mo    == agg.out.totals["Magic Wheels Augusta"].monthly_totals.retail
       IN  /\ Len(daily) = 3
           /\ Len(wk) = 2
           /\ Len(mo) = 2
           /\ Total(daily) = 350
           /\ \E i \in DOMAIN mo : mo[i][2] = 150

\* C17: malformed or missing fields of a record are never fatal to
\* process_data_for_dashboard: whatever the records, the call returns the
\* daily, weekly and monthly totals.
C17_MalformedRecordsAreNotFatal ==
    agg.op = "process_data_for_dashboard" => agg.out.exc = "none"

\* the days after the earlier and up to the later of two days, as ordinals
DaysBetween(d1, d2) ==
    IF toordinal(d1) <= toordinal(d2)
    THEN (toordinal(d1) + 1)..toordinal(d2)
    ELSE (toordinal(d2) + 1)..toordinal(d1)

\* ISO 8601 weeks run from Monday to Sunday, across the end of a year: two
\* days lie in one ISO week when no Monday separates them
SameIsoWeek(d1, d2) == \A o \in DaysBetween(d1, d2) : (o + 6) % 7 # 0

\* two days of one calendar year that no Sunday separates
SameSundayWeekOfYear(d1, d2) ==
    /\ d1[1] = d2[1]
    /\ \A o \in DaysBetween(d1, d2) : (o + 6) % 7 # 6

\* the daily buckets of a location and category are those of two days, and
\* the weekly buckets are one
TwoDays(loc, cat) == Len(agg.out.totals[loc].daily_totals[cat]) = 2

OneWeek(loc, cat) == Len(agg.out.totals[loc].weekly_totals[cat]) = 1

DayAt(loc, cat, i) == agg.out.totals[loc].daily_totals[cat][i][1].ymd

\* C18 as stated: two days are summed into the same weekly bucket if and
\* only if they lie in the same ISO-8601 week, also around a year boundary.
C18_WeeklyBucketIsIsoWeek ==
    Processed =>
        \A loc \in Locations, cat \in Categories :
            TwoDays(loc, cat) =>
                (OneWeek(loc, cat)
                 <=> SameIsoWeek(DayAt(loc, cat, 1), DayAt(loc, cat, 2)))

\* C18, amended: two days are summed into the same weekly bucket if and only
\* if they lie in the same calendar year and in the same Sunday-to-Saturday
\* week.
C18_WeeklyBucketIsSundayWeekOfYear ==
    Processed =>
        \A loc \in Locations, cat \in Categories :
            TwoDays(loc, cat) =>
                (OneWeek(loc, cat)
                 <=> SameSundayWeekOfYear(DayAt(loc, cat, 1),
                                          DayAt(loc, cat, 2)))

\* Sunday 2025-01-05 and Monday 2025-01-06 are in one weekly bucket
C18_Witness ==
    /\ Processed
    /\ TwoDays("Magic Wheels Augusta", "retail")
    /\ OneWeek("Magic Wheels Augusta", "retail")
    /\ {DayAt("Magic Wheels Augusta", "retail", 1),
        DayAt("Magic Wheels Augusta", "retail", 2)}
          = {<<2025, 1, 5>>, <<2025, 1, 6>>}

\* the field of a contact holds a timestamp
Has(contact, field) ==
    /\ field \in DOMAIN contact
    /\ contact[field] # None
    /\ contact[field] # EmptyStr

\* the number of contacts that satisfy a condition
Count(contacts, cond(_)) ==
    Cardinality({i \in DOMAIN contacts : cond(contacts[i])})

HasBoth(contact) == Has(contact, "createdAt") /\ Has(contact, "lastContactedDate")

HasLastContact(contact) == Has(contact, "lastContactedDate")

\* the latencies in seconds of the contacts that have both timestamps
Latencies(contacts) ==
    [i \in DOMAIN contacts |->
        IF HasBoth(contacts[i])
        THEN contacts[i].lastContactedDate.iso - contacts[i].createdAt.iso
        ELSE 0]

\* the fraction q is n / d, or 0 when d is 0
IsRatio(q, n, d) ==
    IF d = 0 THEN q.num = 0 ELSE q.num * d = n * q.den

\* total, rate and average of the result, the number of responded contacts
\* being given
MetricsWith(responded) ==
    LET contacts == agg.contacts
        out      == agg.out
    IN  /\ out.total_leads = Len(contacts)
        /\ out.responded_leads = responded
        /\ IsRatio(out.response_rate, responded, Len(contacts))
        /\ IsRatio(out.avg_response_time_minutes,
                   SumTo(Latencies(contacts), Len(contacts)),
                   60 * Count(contacts, HasBoth))

\* C20 as stated: responded is the number of contacts that have both a
\* creation and a last-contact timestamp.
C20_RespondedHaveBothTimestamps ==
    agg.op = "get_lead_response_metrics"
    => MetricsWith(Count(agg.contacts, HasBoth))

\* C20, amended: total is the number of contacts, responded the number of
\* contacts that have a last-contact timestamp, response_rate is
\* responded/total (0 when total is 0) and avg_response_time_minutes the mean
\* latency in minutes over the contacts that have both timestamps (0 when
\* there is none).
C20_RespondedHaveLastContact ==
    agg.op = "get_lead_response_metrics"
    => MetricsWith(Count(agg.contacts, HasLastContact))

\* one contact answered after 10 minutes and one never contacted: total 2,
\* responded 1, rate 0.5, average 10
C20_Witness ==
    /\ agg.op = "get_lead_response_metrics"
    /\ agg.contacts = <<[createdAt |-> IsoTime(0), lastContactedDate |-> IsoTime(600)],
                        [createdAt |-> IsoTime(0)]>>
    /\ agg.out.total_leads = 2
    /\ agg.out.responded_leads = 1
    /\ agg.out.response_rate.num * 2 = agg.out.response_rate.den
    /\ agg.out.avg_response_time_minutes.num
          = 10 * agg.out.avg_response_time_minutes.den

\* the API with every refused request answered by an empty page
RefusedAsEmpty(api) ==
    [request \in DOMAIN api |->
        IF api[request].status = 200 THEN api[request]
        ELSE [status |-> 200, body |-> <<>>]]

\* the API with no request refused
NothingRefused(api) ==
    [request \in DOMAIN api |-> [api[request] EXCEPT !.status = 200]]

\* the requests for one location
RequestsOf(api, location_id) ==
    {request \in DOMAIN api : Len(request) > 1 /\ request[2] = location_id}

\* the names of the target locations that the account has
TargetNames ==
    {CrmLocations[i].name : i \in DOMAIN CrmLocations} \cap Locations

IdOf(name) ==
    CrmLocations[CHOOSE i \in DOMAIN CrmLocations :
                    CrmLocations[i].name = name].id

\* collect_pipeline_data has returned, the list of locations was not refused
Collected ==
    /\ agg.op = "collect_pipeline_data"
    /\ agg.api[LocationsRequest].status = 200

BucketOfDayBefore(daily, today) ==
    LET hits == {i \in DOMAIN daily :
                    /\ daily[i][1].ymd # <<>>
                    /\ toordinal(today) - toordinal(daily[i][1].ymd) = 1}
    IN  IF hits = {} THEN 0 ELSE daily[CHOOSE i \in hits : TRUE][2]

\* location l has the largest value of a metric among the locations shown,
\* and no location before it in their order has as much
FirstOfTheLargest(location_data, metric, l) ==
    \E i \in DOMAIN location_data :
        /\ location_data[i][1] = l
        /\ \A j \in DOMAIN location_data :
              /\ location_data[j][2][metric] <= location_data[i][2][metric]
              /\ j < i =>
                    location_data[j][2][metric] < location_data[i][2][metric]

C22_FailedRefreshIsNotRetried ==
    (call.op \in {"get", "post"} /\ call.refresh = "failed")
    => /\ call.tokenReqs <= 1
       /\ call.apiReqs = 0
       /\ call.exc = "none"
       /\ call.ret = RetNone

\* a post() with a stored token that is due for refresh; the token endpoint
\* rejects the one refresh request
C22_Witness ==
    /\ call.op = "post"
    /\ call.refresh = "failed"
    /\ call.tokenReqs = 1
    /\ call.tokenStatus = 400
    /\ call.apiReqs = 0
    /\ call.ret = RetNone

\* C23: no call of the client takes a stored token out of the store, and a
\* get, post or refresh_token whose refresh failed leaves the stored token
\* and the in-memory token as they were, so that a retry starts from them.
C23_StoredTokenOnlyMovesForward ==
    [][/\ load_token(tokens) # None => load_token(tokens') # None
       /\ (call'.op \in {"get", "post", "refresh_token"}
           /\ call'.refresh = "failed")
          => /\ load_token(tokens') = load_token(tokens)
             /\ token' = token]_vars

\* fetch_token() stored the first token, a later fetch_token() is rejected,
\* and the store still holds the first token
C23_Witness ==
    /\ call.op = "fetch_token"
    /\ call.tokenStatus = 400
    /\ issued = 1
    /\ load_token(tokens) # None
    /\ load_token(tokens).access_token = AccessTokens[1]

NoRecords ==
    \A loc \in Locations, cat \in Categories : RawOpps(loc, cat) = <<>>

\* C25: an empty record list is not an error.  process_data_for_dashboard on
\* raw data without records returns, and whenever it returns, a category of
\* a location without records has empty daily, weekly and monthly mappings;
\* get_lead_response_metrics on no contacts returns 0 leads, 0 responded
\* leads, the rate 0 and the average 0.
C25_EmptyListsGiveEmptyResults ==
    /\ agg.op = "process_data_for_dashboard"
       => /\ NoRecords => agg.out.exc = "none"
          /\ agg.out.exc = "none"
             => \A loc \in Locations, cat \in Categories :
                   RawOpps(loc, cat) = <<>>
                   => /\ agg.out.totals[loc].daily_totals[cat] = <<>>
                      /\ agg.out.totals[loc].weekly_totals[cat] = <<>>
                      /\ agg.out.totals[loc].monthly_totals[cat] = <<>>
    /\ (agg.op = "get_lead_response_metrics" /\ agg.contacts = <<>>)
       => /\ agg.out.total_leads = 0
          /\ agg.out.responded_leads = 0
          /\ agg.out.response_rate = Zero
          /\ agg.out.avg_response_time_minutes = Zero

\* a location with three retail records and no rental record: the call
\* returns, its rental mappings are empty and its retail mappings are not
C25_Witness ==
    /\ agg.op = "process_data_for_dashboard"
    /\ agg.out.exc = "none"
    /\ Len(RawOpps("Magic Wheels Augusta", "retail")) = 3
    /\ RawOpps("Magic Wheels Augusta", "rental") = <<>>
    /\ agg.out.totals["Magic Wheels Augusta"].daily_totals.rental = <<>>
    /\ agg.out.totals["Magic Wheels Augusta"].monthly_totals.retail # <<>>

\* the scheduler threads that have been started and have not ended
Alive(m) == {i \in DOMAIN m.threads : m.threads[i] # "exited"}

\* C26: at most one scheduler thread of the manager is alive.
C26_AtMostOneSchedulerThread ==
    Cardinality(Alive(mgr)) <= 1

\* C27: once stop() has returned after a start(), running is False and no
\* scheduler thread is inside a refresh_data() that the schedule called.
C27_StopStopsForGood ==
    (/\ mgr.did \in {"stop", "stop_ignored"}
     /\ mgr.caller = "idle"
     /\ mgr.threads # <<>>)
    => /\ ~mgr.running
       /\ \A i \in DOMAIN mgr.threads : mgr.threads[i] # "pending"

\* the opportunities that the API returned for the stages of a name in the
\* pipelines of a location
Retrieved(api, location_id, stage_name) ==
    LET pipelines == get_pipelines(api, location_id)
    IN  UNION {LET stages == get_pipeline_stages(api, location_id,
                                                 pipelines[p].id)
               IN  UNION {LET opps == get_opportunities(api, location_id,
                                                        pipelines[p].id,
                                                        stages[s].id)
                          IN  {opps[o] : o \in DOMAIN opps} :
                          s \in {s \in DOMAIN stages :
                                    stages[s].name = stage_name}} :
               p \in DOMAIN pipelines}

\* the records of a list
Records(list) == {list[i] : i \in DOMAIN list}

\* C28: every opportunity that the API returned for a "Sold Retail" stage of
\* a location is in the location's sold_retail, and every one returned for a
\* "Sold Rental" stage is in its sold_rental.
C28_NoRetrievedOpportunityIsDropped ==
    Collected =>
        \A name \in TargetNames :
            /\ Retrieved(agg.api, IdOf(name), "Sold Retail")
                  \subseteq Records(agg.out[name].sold_retail)
            /\ Retrieved(agg.api, IdOf(name), "Sold Rental")
                  \subseteq Records(agg.out[name].sold_rental)

\* responded_leads is at most total_leads and response_rate is a fraction
\* between 0 and 1
RateInRange(out) ==
    /\ out.responded_leads <= out.total_leads
    /\ out.response_rate.den > 0
    /\ 0 <= out.response_rate.num
    /\ out.response_rate.num <= out.response_rate.den

\* C29 as stated: responded_leads is the number of contacts whose latency
\* enters avg_response_time_minutes, it does not exceed total_leads, and
\* response_rate lies between 0 and 1.
C29_RespondedEqualsLatencies ==
    agg.op = "get_lead_response_metrics"
    => /\ agg.out.responded_leads = Len(response_times(agg.contacts))
       /\ RateInRange(agg.out)

\* C29, amended: responded_leads is the number of contacts that have a
\* lastContactedDate; it is at least the number of contacts whose latency
\* enters avg_response_time_minutes, and equal to it when every contact
\* that has a lastContactedDate has a createdAt; it does not exceed
\* total_leads, and response_rate lies between 0 and 1.
C29_RespondedAtLeastLatencies ==
    agg.op = "get_lead_response_metrics"
    => /\ agg.out.responded_leads = Count(agg.contacts, HasLastContact)
       /\ agg.out.responded_leads >= Len(response_times(agg.contacts))
       /\ (\A i \in DOMAIN agg.contacts :
              HasLastContact(agg.contacts[i]) => HasBoth(agg.contacts[i]))
          => agg.out.responded_leads = Len(response_times(agg.contacts))
       /\ RateInRange(agg.out)

\* a contact with a lastContactedDate and no createdAt next to one with
\* both: two responded leads, one latency
C29_Witness ==
    /\ agg.op = "get_lead_response_metrics"
    /\ Len(agg.contacts) = 2
    /\ Count(agg.contacts, HasBoth) = 1
    /\ \E i \in DOMAIN agg.contacts : "createdAt" \notin DOMAIN agg.contacts[i]
    /\ agg.out.responded_leads = 2
    /\ Len(response_times(agg.contacts)) = 1

====
